---- MODULE Spec2Model ----
(***************************************************************************)
(* Performance-monitoring library: the collectors (API correlation         *)
(* monitor, TanStack query monitor, web-vitals, resource-timing and        *)
(* long-frame monitors), the PerformanceMonitor that orchestrates them and *)
(* the per-framework registry.  Instants are numbers; null / undefined     *)
(* numeric fields are the value Null, which is below every instant.        *)
(***************************************************************************)
EXTENDS Integers, Sequences, FiniteSets, TLC

\* ------------------------------------------------------------------ bounds
MaxStart == 1
MaxDur == 2
MaxInstant == 2
MaxApiLog == 2
MaxObservers == 1
MaxNow == 3
MaxQueryLog == 2
MaxSetups == 1
MaxSessionLog == 1
MaxResourceLog == 2
MaxCount == 2
MaxRatioLog == 3
MaxFrameLog == 2
MaxCallbacks == 2
MaxNotifyLog == 1
MaxRawLog == 1
MaxSnapshotLog == 2
MaxReportLog == 2
MaxClearLog == 1
MaxReads == 2
MaxHydrationInstant == 3
MaxHydrationLog == 2
TimeOrigin == 5
MaxFetchInstant == 2
MaxVitalsLog == 3
MaxDeliveries == 2

\* `number | null` and `number | undefined` fields: the absent value.
Null == -1

VARIABLES
  apiCalls,        \* APICorrelationMonitor.apiCalls
  apiLcpTime,      \* APICorrelationMonitor.lcpTime
  apiInpEvents,    \* APICorrelationMonitor.inpEvents (the keys of the Map)
  apiInitialized,  \* APICorrelationMonitor.initialized
  apiCallbacks,    \* APICorrelationMonitor.callbacks (each observer's behaviour)
  apiNotified,     \* what the observers were handed by the last recordAPICall
  queryMetrics,    \* TanStackQueryMonitor.queryMetrics
  queryStartUsed,  \* per record of queryMetrics: the local startTime of the
                   \* handleQueryEvent call that built it (Null for a snapshot record)
  queryExecutions, \* TanStackQueryMonitor.queryExecutions, in Map insertion order
  queryLcpTime,    \* TanStackQueryMonitor.lcpTime
  queryInpEvents,  \* TanStackQueryMonitor.inpEvents (the keys of the Map)
  queryInitialized, \* TanStackQueryMonitor.initialized (the cache subscription is live)
  vitals,          \* WebVitalsMonitor.metrics
  vitalsInitialized, \* WebVitalsMonitor.initialized
  vitalsCallbacks, \* WebVitalsMonitor.callbacks: the correlation observers, each
                   \* named by the framework key of the PerformanceMonitor it closes
                   \* over, and the other observers, each by its behaviour
  resources,       \* ResourceTimingMonitor.resources
  resInitialized,  \* ResourceTimingMonitor.initialized (its observer is live)
  frames,          \* LoAFMonitor.frames
  loafObserver,    \* LoAFMonitor.observer / initialized: "none", or the entry type observed
  instances,       \* index.ts `instances`: framework key -> PerformanceMonitor
  nextOid,         \* object identities handed out so far (`new PerformanceMonitor`)
  returned,        \* identity of the object the last getPerformanceMonitor returned
  selection,       \* what the last top-k getter call returned
  queryCallbacks,  \* TanStackQueryMonitor.callbacks (each observer's behaviour)
  resCallbacks,    \* ResourceTimingMonitor.callbacks
  loafCallbacks,   \* LoAFMonitor.callbacks
  notified,        \* the last callbacks.forEach pass: which collector ran it,
                   \* the observer calls made, whether an exception left the handler
  analytics,       \* the last sendToAnalytics call: its promise, and the fetch it awaits
  session,         \* the object the last getPerformanceSession() returned, as its
                   \* holder reads it now and as it was when it was returned
  report,          \* the last generateReport(options) call: what it was given and
                   \* the sections it joined, or that it threw
  cleared,         \* the clear() call just made on one collector: which collector,
                   \* and the five logs as they were when it was called
  reads,           \* the aggregation calls made since the last event or clear():
                   \* what was called and what it returned, in call order
  fetchCall,       \* the call of the wrapped window.fetch in flight: how far the
                   \* wrapper has got, and what its caller has received
  xhrCall          \* the XMLHttpRequest in flight: whether it was sent, and when

apiVars == <<apiCalls, apiLcpTime, apiInpEvents, apiInitialized, apiCallbacks, apiNotified>>

queryVars ==
  <<queryMetrics, queryStartUsed, queryExecutions, queryLcpTime, queryInpEvents,
    queryInitialized>>

vitalsVars == <<vitals, vitalsInitialized, vitalsCallbacks>>

resVars == <<resources, resInitialized>>

loafVars == <<frames, loafObserver>>

callerVars == <<session, report, cleared, reads, fetchCall, xhrCall>>

collectorObs == <<queryCallbacks, resCallbacks, loafCallbacks, notified, analytics>>

obsVars ==
  <<queryCallbacks, resCallbacks, loafCallbacks, notified, analytics, callerVars>>

pmVars == <<instances, nextOid, returned>>

vars == <<apiVars, queryVars, vitalsVars, resVars, loafVars, pmVars, selection, obsVars>>

\* ------------------------------------------------------------ input domains
\* (startTime, duration) of a settled request: the small grid and the two
\* calls of the documented scenario.
ApiShapes ==
  {<<s, d>> : s \in 0..MaxStart, d \in 0..MaxDur} \cup {<<100, 300>>, <<500, 50>>}

\* Paint / interaction instants reported by the vitals library.
Instants == (1..MaxInstant) \cup {250}

ObserverKinds == {"ok", "throws"}

\* ------------------------------------------------- APICorrelationMonitor

\* Faulty variant: the comparison with the paint instant made non-strict.
ApiCheckLCPBlocking_NonStrict(lcp, startTime, duration) ==
  IF lcp = Null THEN FALSE
  ELSE startTime <= lcp /\ startTime + duration >= lcp

\* checkLCPBlocking(startTime, duration) with this.lcpTime = lcp
ApiCheckLCPBlocking(lcp, startTime, duration) ==
  IF lcp = Null THEN FALSE
  ELSE LET endTime == startTime + duration
       IN  startTime < lcp /\ endTime > lcp

\* Faulty variant: the comparison with an interaction instant made non-strict.
ApiCheckINPBlocking_NonStrict(inp, startTime, duration) ==
  \E inpTime \in inp : startTime <= inpTime /\ startTime + duration >= inpTime

\* checkINPBlocking(startTime, duration) with this.inpEvents = inp
ApiCheckINPBlocking(inp, startTime, duration) ==
  LET endTime == startTime + duration
  IN  \E inpTime \in inp : startTime < inpTime /\ endTime > inpTime

\* Faulty variant: the pass recomputes the flag of every record, flagged or not.
ApiCorrelateWithLCP_Recompute(calls, lcp) ==
  IF lcp = Null THEN calls
  ELSE [i \in 1..Len(calls) |->
          [calls[i] EXCEPT !.blockedLCP =
             ApiCheckLCPBlocking(lcp, calls[i].startTime, calls[i].duration)]]

\* correlateWithLCP(): the log after the pass
ApiCorrelateWithLCP(calls, lcp) ==
  IF lcp = Null THEN calls
  ELSE [i \in 1..Len(calls) |->
          IF ~calls[i].blockedLCP
            THEN [calls[i] EXCEPT !.blockedLCP =
                    ApiCheckLCPBlocking(lcp, calls[i].startTime, calls[i].duration)]
            ELSE calls[i]]

\* correlateWithINP(): the log after the pass
ApiCorrelateWithINP(calls, inp) ==
  [i \in 1..Len(calls) |->
      IF ~calls[i].blockedINP
        THEN [calls[i] EXCEPT !.blockedINP =
                ApiCheckINPBlocking(inp, calls[i].startTime, calls[i].duration)]
        ELSE calls[i]]

\* Faulty variant: a new record is created unflagged, left to a later pass.
ApiMetric_Unchecked(startTime, duration) ==
  [startTime  |-> startTime,
   duration   |-> duration,
   blockedLCP |-> FALSE,
   blockedINP |-> FALSE]

\* The metric recordAPICall builds from the call data.
ApiMetric(startTime, duration) ==
  [startTime  |-> startTime,
   duration   |-> duration,
   blockedLCP |-> ApiCheckLCPBlocking(apiLcpTime, startTime, duration),
   blockedINP |-> ApiCheckINPBlocking(apiInpEvents, startTime, duration)]

\* callbacks.forEach(try { callback(metric) } catch { log }): every observer
\* is handed the metric, in registration order, whether or not one throws.
NotifyAll(callbacks, metric) ==
  [i \in 1..Len(callbacks) |-> [observer |-> i, metric |-> metric]]

ApiInitialize ==
  /\ apiInitialized' = TRUE
  /\ UNCHANGED <<apiCalls, apiLcpTime, apiInpEvents, apiCallbacks, apiNotified>>

OnAPICall(kind) ==
  /\ Len(apiCallbacks) < MaxObservers
  /\ apiCallbacks' = Append(apiCallbacks, kind)
  /\ UNCHANGED <<apiCalls, apiLcpTime, apiInpEvents, apiInitialized, apiNotified>>

\* recordAPICall: reached only from the intercepted fetch / XHR, hence only
\* once initialize() has installed the interception.
RecordAPICall(startTime, duration) ==
  /\ apiInitialized
  /\ Len(apiCalls) < MaxApiLog
  /\ LET metric == ApiMetric(startTime, duration)
     IN  /\ apiCalls' = Append(apiCalls, metric)
         /\ apiNotified' = NotifyAll(apiCallbacks, metric)
  /\ UNCHANGED <<apiLcpTime, apiInpEvents, apiInitialized, apiCallbacks>>

\* Faulty variant: the instant is stored and the log is left as it was.
ApiSetLCPTime_NoPass(time) ==
  /\ apiLcpTime' = time
  /\ UNCHANGED <<apiCalls, apiInpEvents, apiInitialized, apiCallbacks, apiNotified>>

ApiSetLCPTime(time) ==
  /\ apiLcpTime' = time
  /\ apiCalls' = ApiCorrelateWithLCP(apiCalls, time)
  /\ UNCHANGED <<apiInpEvents, apiInitialized, apiCallbacks, apiNotified>>

\* Faulty variant: only the latest interaction instant is kept.
ApiRecordINPEvent_Latest(time) ==
  /\ apiInpEvents' = {time}
  /\ apiCalls' = ApiCorrelateWithINP(apiCalls, {time})
  /\ UNCHANGED <<apiLcpTime, apiInitialized, apiCallbacks, apiNotified>>

ApiRecordINPEvent(time) ==
  /\ apiInpEvents' = apiInpEvents \cup {time}
  /\ apiCalls' = ApiCorrelateWithINP(apiCalls, apiInpEvents \cup {time})
  /\ UNCHANGED <<apiLcpTime, apiInitialized, apiCallbacks, apiNotified>>

\* Faulty variant: clear() also forgets the instants observed so far.
ApiClear_Forget ==
  /\ apiCalls' = <<>>
  /\ apiLcpTime' = Null
  /\ apiInpEvents' = {}
  /\ UNCHANGED <<apiInitialized, apiCallbacks, apiNotified>>

ApiClear ==
  /\ apiCalls' = <<>>
  /\ UNCHANGED <<apiLcpTime, apiInpEvents, apiInitialized, apiCallbacks, apiNotified>>

ApiInit ==
  /\ apiCalls = <<>>
  /\ apiLcpTime = Null
  /\ apiInpEvents = {}
  /\ apiInitialized = FALSE
  /\ apiCallbacks = <<>>
  /\ apiNotified = <<>>

\* --------------------------------------------------- TanStackQueryMonitor

QueryKeys == {"a", "b"}

\* checkLCPBlocking(startTime, duration) with this.lcpTime = lcp
QueryCheckLCPBlocking(lcp, startTime, duration) ==
  IF lcp = Null THEN FALSE
  ELSE LET endTime == startTime + duration
       IN  startTime < lcp /\ endTime > lcp

\* checkINPBlocking(startTime, duration) with this.inpEvents = inp
QueryCheckINPBlocking(inp, startTime, duration) ==
  LET endTime == startTime + duration
  IN  \E inpTime \in inp : startTime < inpTime /\ endTime > inpTime

\* `metric.fetchDuration && ...`: undefined and 0 are both falsy.
Truthy(n) == n # Null /\ n # 0

\* `fetchDuration || 0`
OrZero(n) == IF Truthy(n) THEN n ELSE 0

\* correlateWithLCP(): the log after the pass.  The interval is rebuilt from
\* the record: dataUpdatedAt - fetchDuration, fetchDuration.
QueryCorrelateWithLCP(metrics, lcp) ==
  IF lcp = Null THEN metrics
  ELSE [i \in 1..Len(metrics) |->
          IF Truthy(metrics[i].fetchDuration) /\ ~metrics[i].blockedLCP
            THEN [metrics[i] EXCEPT !.blockedLCP =
                    QueryCheckLCPBlocking(lcp,
                      metrics[i].dataUpdatedAt - metrics[i].fetchDuration,
                      metrics[i].fetchDuration)]
            ELSE metrics[i]]

\* correlateWithINP(): the log after the pass
QueryCorrelateWithINP(metrics, inp) ==
  [i \in 1..Len(metrics) |->
      IF Truthy(metrics[i].fetchDuration) /\ ~metrics[i].blockedINP
        THEN [metrics[i] EXCEPT !.blockedINP =
                QueryCheckINPBlocking(inp,
                  metrics[i].dataUpdatedAt - metrics[i].fetchDuration,
                  metrics[i].fetchDuration)]
        ELSE metrics[i]]

\* handleQueryEvent: const startTime = query._fetchStartTime || Date.now()
EventStartTime(ev) == IF ev.fetchStartTime # 0 THEN ev.fetchStartTime ELSE ev.now

\* handleQueryEvent: fetchDuration, undefined until data has been fetched
EventFetchDuration(ev) ==
  IF ev.dataUpdatedAt > 0 THEN ev.now - EventStartTime(ev) ELSE Null

\* The metric handleQueryEvent builds.
QueryMetric(ev) ==
  [queryKey      |-> ev.queryKey,
   status        |-> ev.status,
   fetchStatus   |-> ev.fetchStatus,
   dataUpdatedAt |-> ev.dataUpdatedAt,
   staleTime     |-> OrZero(ev.staleTime),
   fetchDuration |-> EventFetchDuration(ev),
   blockedLCP    |-> QueryCheckLCPBlocking(queryLcpTime, EventStartTime(ev),
                                           OrZero(EventFetchDuration(ev))),
   blockedINP    |-> QueryCheckINPBlocking(queryInpEvents, EventStartTime(ev),
                                           OrZero(EventFetchDuration(ev)))]

\* Faulty variant: a key is counted when it is first seen only.
BumpExecution_FirstOnly(execs, key, dur) ==
  IF \E i \in 1..Len(execs) : execs[i].queryKey = key
    THEN execs
    ELSE Append(execs, [queryKey |-> key, count |-> 1, totalDuration |-> OrZero(dur)])

\* queryExecutions.set(queryKey, {count + 1, totalDuration + (fetchDuration || 0)}):
\* an existing key keeps its place in the Map, a new key goes last.
BumpExecution(execs, key, dur) ==
  IF \E i \in 1..Len(execs) : execs[i].queryKey = key
    THEN [i \in 1..Len(execs) |->
            IF execs[i].queryKey = key
              THEN [execs[i] EXCEPT !.count = @ + 1, !.totalDuration = @ + OrZero(dur)]
              ELSE execs[i]]
    ELSE Append(execs, [queryKey |-> key, count |-> 1, totalDuration |-> OrZero(dur)])

\* handleQueryEvent(event), called by the cache subscription.
HandleQueryEvent(ev) ==
  /\ queryInitialized
  /\ Len(queryMetrics) < MaxQueryLog
  /\ IF ev.type # "updated"
       THEN UNCHANGED <<queryMetrics, queryStartUsed, queryExecutions>>
       ELSE /\ queryExecutions' =
                 BumpExecution(queryExecutions, ev.queryKey, EventFetchDuration(ev))
            /\ queryMetrics' = Append(queryMetrics, QueryMetric(ev))
            /\ queryStartUsed' = Append(queryStartUsed, EventStartTime(ev))
  /\ UNCHANGED <<queryLcpTime, queryInpEvents, queryInitialized>>

\* snapshotCurrentQueries(): one record per query already in the cache, with
\* no fetchDuration and no blocking flags (absent reads as false everywhere).
SnapshotMetric(q) ==
  [queryKey      |-> q.queryKey,
   status        |-> q.status,
   fetchStatus   |-> q.fetchStatus,
   dataUpdatedAt |-> q.dataUpdatedAt,
   staleTime     |-> q.staleTime,
   fetchDuration |-> Null,
   blockedLCP    |-> FALSE,
   blockedINP    |-> FALSE]

\* The queries a cache may already hold when the monitor subscribes.
CachedQueries ==
  {<<>>} \cup
  {<<[queryKey |-> k, dataUpdatedAt |-> u, status |-> IF u > 0 THEN "success" ELSE "pending",
      fetchStatus |-> "idle", staleTime |-> 0]>> : k \in QueryKeys, u \in 0..1}

\* Faulty variant: the queries found in the cache are counted as executions.
QueryInitialize_Counted(cached) ==
  /\ IF queryInitialized
       THEN UNCHANGED <<queryMetrics, queryStartUsed, queryInitialized, queryExecutions>>
       ELSE /\ Len(queryMetrics) + Len(cached) <= MaxQueryLog
            /\ queryMetrics' =
                 queryMetrics \o [i \in 1..Len(cached) |-> SnapshotMetric(cached[i])]
            /\ queryStartUsed' = queryStartUsed \o [i \in 1..Len(cached) |-> Null]
            /\ queryExecutions' =
                 IF cached = <<>> THEN queryExecutions
                 ELSE BumpExecution(queryExecutions, cached[1].queryKey, Null)
            /\ queryInitialized' = TRUE
  /\ UNCHANGED <<queryLcpTime, queryInpEvents>>

\* initialize(queryClient)
QueryInitialize(cached) ==
  /\ IF queryInitialized
       THEN UNCHANGED <<queryMetrics, queryStartUsed, queryInitialized>>
       ELSE /\ Len(queryMetrics) + Len(cached) <= MaxQueryLog
            /\ queryMetrics' =
                 queryMetrics \o [i \in 1..Len(cached) |-> SnapshotMetric(cached[i])]
            /\ queryStartUsed' = queryStartUsed \o [i \in 1..Len(cached) |-> Null]
            /\ queryInitialized' = TRUE
  /\ UNCHANGED <<queryExecutions, queryLcpTime, queryInpEvents>>

QuerySetLCPTime(time) ==
  /\ queryLcpTime' = time
  /\ queryMetrics' = QueryCorrelateWithLCP(queryMetrics, time)
  /\ UNCHANGED <<queryStartUsed, queryExecutions, queryInpEvents, queryInitialized>>

QueryRecordINPEvent(time) ==
  /\ queryInpEvents' = queryInpEvents \cup {time}
  /\ queryMetrics' = QueryCorrelateWithINP(queryMetrics, queryInpEvents \cup {time})
  /\ UNCHANGED <<queryStartUsed, queryExecutions, queryLcpTime, queryInitialized>>

\* Faulty variant: clear() empties the log but keeps the per-key execution counters.
QueryClear_KeepExecutions ==
  /\ queryMetrics' = <<>>
  /\ queryStartUsed' = <<>>
  /\ UNCHANGED <<queryExecutions, queryLcpTime, queryInpEvents, queryInitialized>>

QueryClear ==
  /\ queryMetrics' = <<>>
  /\ queryStartUsed' = <<>>
  /\ queryExecutions' = <<>>
  /\ UNCHANGED <<queryLcpTime, queryInpEvents, queryInitialized>>

\* Faulty variant: the cache subscription is left in place.
QueryDisconnect_StillSubscribed ==
  UNCHANGED <<queryInitialized, queryMetrics, queryStartUsed, queryExecutions,
              queryLcpTime, queryInpEvents>>

QueryDisconnect ==
  /\ queryInitialized' = FALSE
  /\ UNCHANGED <<queryMetrics, queryStartUsed, queryExecutions, queryLcpTime,
                 queryInpEvents>>

QueryInit ==
  /\ queryMetrics = <<>>
  /\ queryStartUsed = <<>>
  /\ queryExecutions = <<>>
  /\ queryLcpTime = Null
  /\ queryInpEvents = {}
  /\ queryInitialized = FALSE

\* ------------------------------------------------------- exact quotients
\* number / number: a reduced fraction with a positive denominator.
RECURSIVE GCD(_, _)
GCD(a, b) == IF b = 0 THEN a ELSE GCD(b, a % b)

Abs(n) == IF n < 0 THEN -n ELSE n

Quotient(n, d) ==
  LET g == GCD(Abs(n), Abs(d))
      sg == IF d < 0 THEN -1 ELSE 1
  IN  [num |-> sg * (n \div g), den |-> sg * (d \div g)]

Zero == [num |-> 0, den |-> 1]

QAdd(a, b) == Quotient(a.num * b.den + b.num * a.den, a.den * b.den)

QDivInt(a, n) == Quotient(a.num, a.den * n)

\* An `undefined` quotient (compressionRatio of a resource with no encoded body).
NoQuotient == [num |-> 0, den |-> 0]

RECURSIVE QSum(_)
QSum(seq) == IF seq = <<>> THEN Zero ELSE QAdd(Head(seq), QSum(Tail(seq)))

RECURSIVE Sum(_)
Sum(seq) == IF seq = <<>> THEN 0 ELSE Head(seq) + Sum(Tail(seq))

\* -------------------------------------------------------- WebVitalsMonitor

MetricNames == {"LCP", "CLS", "INP", "FCP", "TTFB"}

VitalsInitialize ==
  /\ vitalsInitialized' = TRUE
  /\ UNCHANGED <<vitals, vitalsCallbacks>>

\* baseMetricData: the stored record (timestamp is Date.now() on arrival)
VitalsRecord(name, value, now) == [name |-> name, value |-> value, timestamp |-> now]

\* Faulty variant: the last record of the log, if it has that name.
LatestMetric_LastOfLog(name) ==
  IF Len(vitals) > 0 /\ vitals[Len(vitals)].name = name
    THEN <<vitals[Len(vitals)]>> ELSE <<>>

\* getLatestMetric(name): the last-appended record of that name, or none
LatestMetric(name) ==
  LET filtered == SelectSeq(vitals, LAMBDA m : m.name = name)
  IN  IF Len(filtered) > 0 THEN <<filtered[Len(filtered)]>> ELSE <<>>

VitalsClear ==
  /\ vitals' = <<>>
  /\ UNCHANGED <<vitalsInitialized, vitalsCallbacks>>

VitalsInit ==
  /\ vitals = <<>>
  /\ vitalsInitialized = FALSE
  /\ vitalsCallbacks = <<>>

\* --------------------------------------------------- ResourceTimingMonitor

\* getRenderBlockingStatus(entry): the platform's flag when the entry has
\* one, else the heuristic (stylesheet, blocking script or font, loaded
\* before 1000 ms).
RenderBlockingStatus(entry) ==
  IF entry.renderBlockingStatus # "absent"
    THEN (IF entry.renderBlockingStatus = "blocking" THEN "blocking" ELSE "non-blocking")
    ELSE IF entry.likelyBlocking /\ entry.startTime < 1000 THEN "blocking"
    ELSE "non-blocking"

\* convertToResourceTiming(entry)
ResourceRecord(entry) ==
  [startTime            |-> entry.startTime,
   duration             |-> entry.duration,
   renderBlockingStatus |-> RenderBlockingStatus(entry),
   transferSize         |-> entry.transferSize,
   encodedBodySize      |-> entry.encodedBodySize,
   decodedBodySize      |-> entry.decodedBodySize,
   compressionRatio     |-> IF entry.encodedBodySize > 0
                              THEN Quotient(entry.decodedBodySize, entry.encodedBodySize)
                              ELSE NoQuotient]

\* What the page offers initialize(): PerformanceObserver with the resource
\* entry type, no PerformanceObserver at all, or one whose construction or
\* observe() throws.
ResourcePlatforms == {"available", "absent", "throws"}

\* Faulty variant: initialized is set whatever the platform offers.
ResourceInitializeOn_Regardless(platform) ==
  /\ resInitialized' = TRUE
  /\ UNCHANGED resources

\* initialize() on the given platform: a no-op when already initialized;
\* otherwise initialized becomes true only when observe() returned.
ResourceInitializeOn(platform) ==
  /\ resInitialized' = IF resInitialized THEN TRUE ELSE platform = "available"
  /\ UNCHANGED resources

\* initialize() where PerformanceObserver is available
ResourceInitialize == ResourceInitializeOn("available")

\* disconnect(): the observer, if any, is disconnected and dropped
ResourceDisconnect ==
  /\ resInitialized' = FALSE
  /\ UNCHANGED resources

\* handleResourceEntry(entry), called by the resource observer
HandleResourceEntry(entry, maxLog) ==
  /\ resInitialized
  /\ Len(resources) < maxLog
  /\ resources' = Append(resources, ResourceRecord(entry))
  /\ UNCHANGED resInitialized

\* getBlockingResources()
BlockingResources == SelectSeq(resources, LAMBDA r : r.renderBlockingStatus = "blocking")

\* getTotalTransferSize()
TotalTransferSize == Sum([i \in 1..Len(resources) |-> resources[i].transferSize])

\* Faulty variant: the sum of the ratios is divided by the size of the log.
AverageCompressionRatio_OverLog ==
  LET defined == SelectSeq(resources,
                   LAMBDA r : r.compressionRatio # NoQuotient /\ r.compressionRatio.num > 0)
      ratios == [i \in 1..Len(defined) |-> defined[i].compressionRatio]
  IN  IF Len(ratios) = 0 THEN Zero ELSE QDivInt(QSum(ratios), Len(resources))

\* getAverageCompressionRatio()
AverageCompressionRatio ==
  LET defined == SelectSeq(resources,
                   LAMBDA r : r.compressionRatio # NoQuotient /\ r.compressionRatio.num > 0)
      ratios == [i \in 1..Len(defined) |-> defined[i].compressionRatio]
  IN  IF Len(ratios) = 0 THEN Zero ELSE QDivInt(QSum(ratios), Len(ratios))

ResourceClear ==
  /\ resources' = <<>>
  /\ UNCHANGED resInitialized

ResourceInit ==
  /\ resources = <<>>
  /\ resInitialized = FALSE

\* ------------------------------------------------------------- LoAFMonitor

Max(a, b) == IF a > b THEN a ELSE b

\* initialize(): long-animation-frame when the platform supports it, else
\* the longtask fallback, else the monitor stays un-initialized.
LoafInitialize(supported) ==
  /\ loafObserver' = IF loafObserver # "none" THEN loafObserver ELSE supported
  /\ UNCHANGED frames

\* What the page offers initialize(): whether PerformanceObserver exists,
\* and for each of the two entry types whether supportedEntryTypes lists it
\* and observing it works, it is not listed, or the attempt throws.
LoafPlatforms ==
  [observer : BOOLEAN,
   loaf     : {"supported", "unsupported", "throws"},
   longtask : {"supported", "unsupported", "throws"}]

\* The entry type initialize() ends up observing on the platform: the
\* longtask fallback is tried when long-animation-frame is not listed and
\* when the attempt to observe it throws.
LoafSupport(platform) ==
  IF ~platform.observer THEN "none"
  ELSE IF platform.loaf = "supported" THEN "long-animation-frame"
  ELSE IF platform.longtask = "supported" THEN "longtask"
  ELSE "none"

\* initialize() on the given platform
LoafInitializeOn(platform) == LoafInitialize(LoafSupport(platform))

\* disconnect(): the observer, if any, is disconnected and dropped
LoafDisconnect ==
  /\ loafObserver' = "none"
  /\ UNCHANGED frames

\* handleLoAFEntry(entry): startTime and duration as the entry has them,
\* blockingDuration || 0, one script per attributed script and none when
\* the entry has no scripts array
LoafRecord(entry) ==
  [duration         |-> entry.duration,
   blockingDuration |-> OrZero(entry.blockingDuration),
   scripts          |-> OrZero(entry.scripts)]

\* Faulty variant: the blocking duration is duration - 50, below 0 for a
\* short task.
LongTaskRecord_NoFloor(entry) ==
  [duration         |-> entry.duration,
   blockingDuration |-> entry.duration - 50,
   scripts          |-> 1]

\* handleLongTaskEntry(entry): derived blocking duration, one synthetic script
LongTaskRecord(entry) ==
  [duration         |-> entry.duration,
   blockingDuration |-> Max(0, entry.duration - 50),
   scripts          |-> 1]

\* The observer callback of whichever entry type is observed.
HandleFrameEntry(entry, maxLog) ==
  /\ loafObserver # "none"
  /\ Len(frames) < maxLog
  /\ frames' = Append(frames,
                  IF loafObserver = "long-animation-frame" THEN LoafRecord(entry)
                  ELSE LongTaskRecord(entry))
  /\ UNCHANGED loafObserver

\* Faulty variant: the sum of the blockingDuration the records carry.
TotalBlockingTime_Carried == Sum([i \in 1..Len(frames) |-> frames[i].blockingDuration])

\* getTotalBlockingTime()
TotalBlockingTime == Sum([i \in 1..Len(frames) |-> Max(0, frames[i].duration - 50)])

LoafClear ==
  /\ frames' = <<>>
  /\ UNCHANGED loafObserver

LoafInit ==
  /\ frames = <<>>
  /\ loafObserver = "none"

\* ------------------------------------------------------ top-k selections
TopKDefault == 10

\* Faulty variant: an element goes before the elements with an equal key.
InsertDesc_Unstable(sorted, p) ==
  LET ahead == Cardinality({i \in 1..Len(sorted) : sorted[i][1] > p[1]})
  IN  SubSeq(sorted, 1, ahead) \o <<p>> \o SubSeq(sorted, ahead + 1, Len(sorted))

\* [...log].sort((a, b) => b.key - a.key) on <<key, index>> pairs: the
\* engine's sort is stable, so an element goes after every element whose key
\* is not smaller.
InsertDesc(sorted, p) ==
  LET ahead == Cardinality({i \in 1..Len(sorted) : sorted[i][1] >= p[1]})
  IN  SubSeq(sorted, 1, ahead) \o <<p>> \o SubSeq(sorted, ahead + 1, Len(sorted))

RECURSIVE SortDesc(_)
SortDesc(pairs) ==
  IF pairs = <<>> THEN <<>>
  ELSE InsertDesc(SortDesc(SubSeq(pairs, 1, Len(pairs) - 1)), pairs[Len(pairs)])

\* array.slice(0, count)
Slice(seq, count) ==
  IF count >= 0
    THEN SubSeq(seq, 1, IF count < Len(seq) THEN count ELSE Len(seq))
    ELSE SubSeq(seq, 1, Max(0, Len(seq) + count))

\* The log positions of the selected records, best first.
Ranked(keys, count) ==
  LET sorted == SortDesc([i \in 1..Len(keys) |-> <<keys[i], i>>])
  IN  Slice([i \in 1..Len(sorted) |-> sorted[i][2]], count)

\* getSlowestCalls(count)
SlowestCallsAt(count) == Ranked([i \in 1..Len(apiCalls) |-> apiCalls[i].duration], count)

GetSlowestCalls(count) ==
  LET at == SlowestCallsAt(count) IN [i \in 1..Len(at) |-> apiCalls[at[i]]]

\* getLargestResources(count)
LargestResourcesAt(count) ==
  Ranked([i \in 1..Len(resources) |-> resources[i].transferSize], count)

GetLargestResources(count) ==
  LET at == LargestResourcesAt(count) IN [i \in 1..Len(at) |-> resources[at[i]]]

\* getSlowestResources(count)
SlowestResourcesAt(count) ==
  Ranked([i \in 1..Len(resources) |-> resources[i].duration], count)

GetSlowestResources(count) ==
  LET at == SlowestResourcesAt(count) IN [i \in 1..Len(at) |-> resources[at[i]]]

\* getAverageLatency()
AverageLatency ==
  IF Len(apiCalls) = 0 THEN Zero
  ELSE Quotient(Sum([i \in 1..Len(apiCalls) |-> apiCalls[i].duration]), Len(apiCalls))

\* Faulty variant: every record of the log, with or without a fetchDuration.
TimedQueriesAt_All == [i \in 1..Len(queryMetrics) |-> i]

\* getQueryCacheStats(): queriesWithDuration (and the filter of
\* slowestQueries), as positions in queryMetrics: the records whose
\* fetchDuration is not undefined.
TimedQueriesAt ==
  SelectSeq([i \in 1..Len(queryMetrics) |-> i],
            LAMBDA i : queryMetrics[i].fetchDuration # Null)

SlowestQueriesAt ==
  LET timed == TimedQueriesAt
      at == Ranked([j \in 1..Len(timed) |-> OrZero(queryMetrics[timed[j]].fetchDuration)],
                   TopKDefault)
  IN  [j \in 1..Len(at) |-> timed[at[j]]]

\* getQueryCacheStats(): mostFrequentQueries, as positions in queryExecutions
MostFrequentQueriesAt ==
  Ranked([i \in 1..Len(queryExecutions) |-> queryExecutions[i].count], TopKDefault)

\* getQueryCacheStats(), with Date.now() = now
QueryCacheStats(now) ==
  LET timed == TimedQueriesAt
      totalQueries == Len(queryMetrics)
      totalExecutions == Sum([i \in 1..Len(queryExecutions) |-> queryExecutions[i].count])
      slowest == SlowestQueriesAt
      frequent == MostFrequentQueriesAt
  IN  [totalQueries   |-> totalQueries,
       activeQueries  |-> Len(SelectSeq(queryMetrics, LAMBDA q : q.fetchStatus = "fetching")),
       staleQueries   |-> Len(SelectSeq(queryMetrics,
                            LAMBDA q : q.dataUpdatedAt > 0
                                       /\ (now - q.dataUpdatedAt) > q.staleTime)),
       erroredQueries |-> Len(SelectSeq(queryMetrics, LAMBDA q : q.status = "error")),
       averageFetchDuration |->
         IF Len(timed) > 0
           THEN Quotient(Sum([j \in 1..Len(timed) |->
                                OrZero(queryMetrics[timed[j]].fetchDuration)]),
                         Len(timed))
           ELSE Zero,
       cacheHitRate |->
         IF totalExecutions > 0
           THEN Quotient(totalExecutions - totalQueries, totalExecutions)
           ELSE Zero,
       slowestQueries |-> [j \in 1..Len(slowest) |-> queryMetrics[slowest[j]]],
       mostFrequentQueries |->
         [j \in 1..Len(frequent) |->
            [queryKey |-> queryExecutions[frequent[j]].queryKey,
             count    |-> queryExecutions[frequent[j]].count]]]

\* A getter call: what was asked and the log positions of what it returned
\* (`also`: the second list of getQueryCacheStats, positions in the Map).
NoSelection == [op |-> "none", count |-> 0, at |-> <<>>, also |-> <<>>]

\* Faulty variant: the getter sorts the log itself.
LogAfterSort_InPlace(log, keys) ==
  LET at == Ranked(keys, Len(log)) IN [i \in 1..Len(log) |-> log[at[i]]]

\* `[...log].sort(...)`: the sort reorders a copy, the log is as it was.
LogAfterSort(log, keys) == log

CallGetSlowestCalls(count) ==
  /\ selection' = [op |-> "getSlowestCalls", count |-> count,
                   at |-> SlowestCallsAt(count), also |-> <<>>]
  /\ apiCalls' = LogAfterSort(apiCalls,
                              [i \in 1..Len(apiCalls) |-> apiCalls[i].duration])
  /\ UNCHANGED <<apiLcpTime, apiInpEvents, apiInitialized, apiCallbacks, apiNotified>>

CallGetLargestResources(count) ==
  /\ selection' = [op |-> "getLargestResources", count |-> count,
                   at |-> LargestResourcesAt(count), also |-> <<>>]
  /\ resources' = LogAfterSort(resources,
                               [i \in 1..Len(resources) |-> resources[i].transferSize])
  /\ UNCHANGED resInitialized

CallGetSlowestResources(count) ==
  /\ selection' = [op |-> "getSlowestResources", count |-> count,
                   at |-> SlowestResourcesAt(count), also |-> <<>>]
  /\ resources' = LogAfterSort(resources,
                               [i \in 1..Len(resources) |-> resources[i].duration])
  /\ UNCHANGED resInitialized

CallGetQueryCacheStats ==
  selection' = [op |-> "getQueryCacheStats", count |-> TopKDefault,
                at |-> SlowestQueriesAt, also |-> MostFrequentQueriesAt]

\* ------------------------------------------- PerformanceMonitor, registry

Frameworks == {"react", "vue", "other"}

\* new PerformanceMonitor(framework)
NewMonitor(framework, oid) ==
  [oid                    |-> oid,
   framework              |-> framework,
   hydrationStartTime     |-> Null,
   hydrationMetric        |-> <<>>,
   queryClientInitialized |-> FALSE]

\* Faulty variant: the lookup never consults the map and always constructs.
GetPerformanceMonitor_AlwaysNew(framework) ==
  /\ instances' =
       [k \in DOMAIN instances \cup {framework} |->
          IF k = framework THEN NewMonitor(framework, nextOid) ELSE instances[k]]
  /\ nextOid' = nextOid + 1
  /\ returned' = nextOid

\* getPerformanceMonitor(framework)
GetPerformanceMonitor(framework) ==
  /\ IF framework \notin DOMAIN instances
       THEN /\ instances' =
                 [k \in DOMAIN instances \cup {framework} |->
                    IF k = framework THEN NewMonitor(framework, nextOid) ELSE instances[k]]
            /\ nextOid' = nextOid + 1
       ELSE UNCHANGED <<instances, nextOid>>
  /\ returned' = instances'[framework].oid

\* One run of the observer setupCorrelations() registered for monitor k, on
\* the state st of the two correlated collectors.
CorrelationObserver(st, k, name, value) ==
  LET toQuery == instances[k].queryClientInitialized
  IN  IF name = "LCP" THEN
        [st EXCEPT
           !.apiLcpTime = value,
           !.apiCalls = ApiCorrelateWithLCP(st.apiCalls, value),
           !.queryLcpTime = IF toQuery THEN value ELSE @,
           !.queryMetrics = IF toQuery THEN QueryCorrelateWithLCP(@, value) ELSE @]
      ELSE IF name = "INP" THEN
        [st EXCEPT
           !.apiInpEvents = @ \cup {value},
           !.apiCalls = ApiCorrelateWithINP(st.apiCalls, st.apiInpEvents \cup {value}),
           !.queryInpEvents = IF toQuery THEN @ \cup {value} ELSE @,
           !.queryMetrics =
              IF toQuery
                THEN QueryCorrelateWithINP(@, st.queryInpEvents \cup {value})
                ELSE @]
      ELSE st

\* callbacks.forEach(callback => callback(metric)), in registration order
RECURSIVE RunObservers(_, _, _, _)
RunObservers(st, owners, name, value) ==
  IF owners = <<>> THEN st
  ELSE RunObservers(IF Head(owners) \in ObserverKinds THEN st
                    ELSE CorrelationObserver(st, Head(owners), name, value),
                    Tail(owners), name, value)

\* storeMetric(metric), called by the web-vitals library: the record is
\* appended, then every registered observer runs.
VitalsMetric(name, value, now, maxLog) ==
  /\ vitalsInitialized
  /\ Len(vitals) < maxLog
  /\ vitals' = Append(vitals, VitalsRecord(name, value, now))
  /\ LET st == RunObservers(
                 [apiCalls |-> apiCalls, apiLcpTime |-> apiLcpTime,
                  apiInpEvents |-> apiInpEvents, queryMetrics |-> queryMetrics,
                  queryLcpTime |-> queryLcpTime, queryInpEvents |-> queryInpEvents],
                 vitalsCallbacks, name, value)
     IN  /\ apiCalls' = st.apiCalls
         /\ apiLcpTime' = st.apiLcpTime
         /\ apiInpEvents' = st.apiInpEvents
         /\ queryMetrics' = st.queryMetrics
         /\ queryLcpTime' = st.queryLcpTime
         /\ queryInpEvents' = st.queryInpEvents
  /\ UNCHANGED <<vitalsInitialized, vitalsCallbacks, apiInitialized, apiCallbacks,
                 apiNotified, queryStartUsed, queryExecutions, queryInitialized>>

\* PerformanceMonitor.initialize(): every collector's initialize(), then
\* setupCorrelations() registers one more observer with the vitals monitor.
PMInitialize(k, loafSupport, maxObservers) ==
  /\ k \in DOMAIN instances
  /\ Len(vitalsCallbacks) < maxObservers
  /\ vitalsInitialized' = TRUE
  /\ vitalsCallbacks' = Append(vitalsCallbacks, k)
  /\ UNCHANGED vitals
  /\ ResourceInitialize
  /\ LoafInitialize(loafSupport)
  /\ ApiInitialize

\* PerformanceMonitor.initializeQueryClient(queryClient): the query
\* monitor's initialize(), then setupQueryCorrelations() registers an
\* observer (it logs, and returns) with the query monitor.
PMInitializeQueryClient(k, cached) ==
  /\ k \in DOMAIN instances
  /\ IF instances[k].queryClientInitialized
       THEN UNCHANGED <<queryVars, instances, queryCallbacks>>
       ELSE /\ QueryInitialize(cached)
            /\ queryCallbacks' = Append(queryCallbacks, "ok")
            /\ instances' = [instances EXCEPT ![k].queryClientInitialized = TRUE]

\* markHydrationStart(), with performance.now() = now
MarkHydrationStart(k, now) ==
  /\ k \in DOMAIN instances
  /\ instances' = [instances EXCEPT ![k].hydrationStartTime = now]

\* Faulty variant: no check that a start was marked; a missing start reads 0.
MarkHydrationEnd_Unguarded(k, now, componentCount) ==
  /\ k \in DOMAIN instances
  /\ LET start == OrZero(instances[k].hydrationStartTime)
     IN  /\ now >= start
         /\ instances' = [instances EXCEPT ![k].hydrationMetric =
               <<[startTime |-> start, endTime |-> now, duration |-> now - start,
                  componentsHydrated |-> OrZero(componentCount),
                  framework |-> instances[k].framework,
                  lcpBeforeHydration |-> Null, lcpAfterHydration |-> Null]>>]

\* markHydrationEnd(componentCount), with performance.now() = now
MarkHydrationEnd(k, now, componentCount) ==
  /\ k \in DOMAIN instances
  /\ IF instances[k].hydrationStartTime = Null
       THEN UNCHANGED instances
       ELSE /\ now >= instances[k].hydrationStartTime
            /\ LET lcp == LatestMetric("LCP")
                   has == lcp # <<>>
               IN instances' = [instances EXCEPT ![k].hydrationMetric =
                    <<[startTime |-> instances[k].hydrationStartTime,
                       endTime |-> now,
                       duration |-> now - instances[k].hydrationStartTime,
                       componentsHydrated |-> OrZero(componentCount),
                       framework |-> instances[k].framework,
                       lcpBeforeHydration |->
                         IF has /\ lcp[1].timestamp < now THEN lcp[1].value ELSE Null,
                       lcpAfterHydration |->
                         IF has /\ lcp[1].timestamp >= now THEN lcp[1].value ELSE Null]>>]

\* PerformanceMonitor.clear()
PMClear(k) ==
  /\ k \in DOMAIN instances
  /\ VitalsClear
  /\ ResourceClear
  /\ LoafClear
  /\ ApiClear
  /\ IF instances[k].queryClientInitialized THEN QueryClear ELSE UNCHANGED queryVars
  /\ instances' = [instances EXCEPT ![k].hydrationMetric = <<>>,
                                     ![k].hydrationStartTime = Null]

\* getPerformanceSession() of monitor k, with Date.now() = now.  (sessionId,
\* timestamp, url, userAgent and navigation come from the platform.)
PerformanceSession(k, now) ==
  LET queryCache ==
        IF instances[k].queryClientInitialized THEN <<QueryCacheStats(now)>> ELSE <<>>
  IN  [framework  |-> instances[k].framework,
       webVitals  |-> vitals,
       hydration  |-> instances[k].hydrationMetric,
       resources  |-> resources,
       longFrames |-> frames,
       apiCalls   |-> apiCalls,
       queryCache |-> queryCache,
       summary    |->
         [totalResources          |-> Len(resources),
          blockingResources       |-> Len(BlockingResources),
          totalTransferSize       |-> TotalTransferSize,
          averageCompressionRatio |-> AverageCompressionRatio,
          apiCallCount            |-> Len(apiCalls),
          averageApiLatency       |-> AverageLatency,
          longFrameCount          |-> Len(frames),
          totalBlockingTime       |-> TotalBlockingTime,
          queryCount              |->
            [i \in 1..Len(queryCache) |-> queryCache[i].totalQueries],
          queryCacheHitRate       |->
            [i \in 1..Len(queryCache) |-> queryCache[i].cacheHitRate],
          averageQueryDuration    |->
            [i \in 1..Len(queryCache) |-> queryCache[i].averageFetchDuration]]]

\* ------------------------------------------ the caller's session object
\* getPerformanceSession() hands its caller arrays built by `[...log]`
\* (part_001 73, part_000 60 and 326, ReactIntegration.tsx 350) and by
\* `[...allQueries].filter().sort().slice()`: each array is new, its elements
\* are the record objects of the log.  `held` is what the caller reads from
\* the object now, `asReturned` what it read when the call returned;
\* apiShared / queryShared say whether the monitor's log still holds the
\* objects of held.apiCalls / held.queryCache.slowestQueries, and queryAt
\* where in queryMetrics it holds the latter.
NoSession ==
  [taken |-> FALSE, held |-> <<>>, asReturned |-> <<>>,
   apiShared |-> FALSE, queryShared |-> FALSE, queryAt |-> <<>>]

\* const session = monitor.getPerformanceSession(), with Date.now() = now
GetPerformanceSession(k, now) ==
  /\ k \in DOMAIN instances
  /\ session' =
       [taken      |-> TRUE,
        held       |-> <<PerformanceSession(k, now)>>,
        asReturned |-> <<PerformanceSession(k, now)>>,
        apiShared  |-> TRUE,
        queryShared |-> instances[k].queryClientInitialized,
        queryAt    |-> IF instances[k].queryClientInitialized
                         THEN SlowestQueriesAt ELSE <<>>]

\* What the holder of s reads after a handler has left the logs as calls and
\* metrics: push() adds objects the session's arrays do not hold; the
\* correlation passes assign to fields of the objects they do hold.
Reread(s, calls, metrics) ==
  IF ~s.taken THEN s
  ELSE [s EXCEPT
          !.held[1].apiCalls =
             IF s.apiShared THEN SubSeq(calls, 1, Len(@)) ELSE @,
          !.held[1].queryCache =
             IF s.queryShared
               THEN <<[@[1] EXCEPT !.slowestQueries =
                                       [j \in 1..Len(s.queryAt) |-> metrics[s.queryAt[j]]]]>>
               ELSE @]

\* After `this.apiCalls = []` / `this.queryMetrics = []` the monitor holds
\* a new array and none of the session's objects.
Released(s, api, query) ==
  [s EXCEPT !.apiShared = @ /\ ~api, !.queryShared = @ /\ ~query]

\* ------------------------------------------------------ MarkdownReporter

\* defaultOptions
ReportMaxResources == 20
ReportMaxLongFrames == 10
ReportMaxApiCalls == 20

ReportDefaults ==
  [includeResources |-> TRUE, includeLongFrames |-> TRUE, includeApiCalls |-> TRUE,
   includeQueryCache |-> TRUE, maxResources |-> ReportMaxResources,
   maxLongFrames |-> ReportMaxLongFrames, maxApiCalls |-> ReportMaxApiCalls]

\* { ...this.defaultOptions, ...options }: a key the caller gave wins.
MergedOptions(options) ==
  [key \in DOMAIN ReportDefaults \cup DOMAIN options |->
     IF key \in DOMAIN options THEN options[key] ELSE ReportDefaults[key]]

\* generateHeader(session, opts.customTitle)
ReportHeader(s, opts) ==
  [name      |-> "header",
   title     |-> IF "customTitle" \in DOMAIN opts /\ opts.customTitle # ""
                   THEN opts.customTitle ELSE "Performance Report",
   framework |-> s.framework]

\* generateSummary(session)
ReportSummary(s) == [name |-> "summary", rows |-> s.summary]

\* generateWebVitals(metrics): `latest.set(m.name, m)` keeps one row per
\* metric name, in the order the names first arrived, holding the last record.
ReportWebVitals(metrics) ==
  LET firstAt == SelectSeq([i \in 1..Len(metrics) |-> i],
                           LAMBDA i : \A j \in 1..(i - 1) : metrics[j].name # metrics[i].name)
      lastOf(name) ==
        LET same == SelectSeq(metrics, LAMBDA m : m.name = name) IN same[Len(same)]
  IN  [name |-> "vitals",
       rows |-> [r \in 1..Len(firstAt) |-> lastOf(metrics[firstAt[r]].name)]]

\* generateNavigationTiming(nav)
ReportNavigation(nav) == [name |-> "navigation", rows |-> nav]

\* generateHydration(hydration)
ReportHydration(hydration) == [name |-> "hydration", rows |-> hydration]

\* generateResources(resources, max)
ReportResources(rs, max) ==
  LET at == Ranked([i \in 1..Len(rs) |-> rs[i].transferSize], max)
  IN  [name     |-> "resources",
       top      |-> max,
       rows     |-> [j \in 1..Len(at) |-> rs[at[j]]],
       blocking |-> SelectSeq(rs, LAMBDA r : r.renderBlockingStatus = "blocking")]

\* generateLongFrames(frames, max)
ReportLongFrames(fs, max) ==
  LET at == Ranked([i \in 1..Len(fs) |-> fs[i].duration], max)
  IN  [name |-> "longFrames",
       top  |-> max,
       rows |-> [j \in 1..Len(at) |-> fs[at[j]]]]

\* generateApiCalls(calls, max)
ReportApiCalls(calls, max) ==
  LET at == Ranked([i \in 1..Len(calls) |-> calls[i].duration], max)
  IN  [name        |-> "apiCalls",
       top         |-> max,
       rows        |-> [j \in 1..Len(at) |-> calls[at[j]]],
       lcpBlocking |-> SelectSeq(calls, LAMBDA c : c.blockedLCP),
       inpBlocking |-> SelectSeq(calls, LAMBDA c : c.blockedINP)]

\* The rows generateQueryCache lists of each of the two rankings.
ReportTopQueries == 5

\* generateQueryCache(stats)
ReportQueryCache(stats) ==
  [name     |-> "queryCache",
   rows     |-> [totalQueries |-> stats.totalQueries,
                 activeQueries |-> stats.activeQueries,
                 staleQueries |-> stats.staleQueries,
                 erroredQueries |-> stats.erroredQueries,
                 cacheHitRate |-> stats.cacheHitRate,
                 averageFetchDuration |-> stats.averageFetchDuration],
   slowest  |-> Slice(stats.slowestQueries, ReportTopQueries),
   frequent |-> Slice(stats.mostFrequentQueries, ReportTopQueries)]

\* generateFooter()
ReportFooter == [name |-> "footer"]

\* Faulty variant: a section left out leaves an empty section in its place.
SectionIf_Placeholder(wanted, section) ==
  IF wanted THEN <<section>> ELSE <<[name |-> "omitted"]>>

\* if (wanted) sections.push(section)
SectionIf(wanted, section) == IF wanted THEN <<section>> ELSE <<>>

\* `number.toFixed(2)` on a field the record does not have throws.
ReportThrows(s, opts) ==
  /\ opts.includeLongFrames
  /\ \E i \in 1..Len(s.longFrames) : s.longFrames[i].duration = Null

\* generateReport(session, options): the sections pushed, in order.
\* navigation is session.navigation (none, or the platform's timing entry).
ReportSections(s, navigation, options) ==
  LET opts == MergedOptions(options)
  IN  <<ReportHeader(s, opts), ReportSummary(s), ReportWebVitals(s.webVitals)>>
      \o SectionIf(navigation # <<>>, ReportNavigation(navigation))
      \o SectionIf(s.hydration # <<>>, ReportHydration(s.hydration))
      \o SectionIf(opts.includeResources /\ Len(s.resources) > 0,
                   ReportResources(s.resources, opts.maxResources))
      \o SectionIf(opts.includeLongFrames /\ Len(s.longFrames) > 0,
                   ReportLongFrames(s.longFrames, opts.maxLongFrames))
      \o SectionIf(opts.includeApiCalls /\ Len(s.apiCalls) > 0,
                   ReportApiCalls(s.apiCalls, opts.maxApiCalls))
      \o SectionIf(opts.includeQueryCache /\ s.queryCache # <<>>,
                   ReportQueryCache(s.queryCache[1]))
      \o <<ReportFooter>>

NoReport ==
  [made |-> FALSE, session |-> <<>>, navigation |-> <<>>, options |-> <<>>,
   initialized |-> FALSE, threw |-> FALSE, sections |-> <<>>]

\* PerformanceMonitor.generateReport(options) of monitor k, with the
\* platform's navigation entry (or none) and Date.now() = now
GenerateReport(k, navigation, options, now) ==
  /\ k \in DOMAIN instances
  /\ LET s == PerformanceSession(k, now)
         threw == ReportThrows(s, MergedOptions(options))
     IN  report' =
           [made        |-> TRUE,
            session     |-> <<s>>,
            navigation  |-> navigation,
            options     |-> options,
            initialized |-> vitalsInitialized \/ resInitialized \/ apiInitialized
                            \/ loafObserver # "none" \/ queryInitialized,
            threw       |-> threw,
            sections    |-> IF threw THEN <<>>
                            ELSE ReportSections(s, navigation, options)]

\* ------------------------------------------------- clear() of a collector

Collectors == {"vitals", "resources", "frames", "apiCalls", "queryMetrics"}

\* The five logs, by collector.
Logs ==
  [vitals |-> vitals, resources |-> resources, frames |-> frames,
   apiCalls |-> apiCalls, queryMetrics |-> queryMetrics]

\* Faulty variant: one collector's clear() resets the whole session.
LogsAfterClear_All(collector, logs) == [c \in DOMAIN logs |-> <<>>]

\* clear() of one collector: `this.metrics = []` (part_000 74-76),
\* `this.resources = []`, `this.frames = []`, `this.apiCalls = []`,
\* `this.queryMetrics = []`, each assigning the collector's own field.
LogsAfterClear(collector, logs) == [logs EXCEPT ![collector] = <<>>]

NoClear == [collector |-> "none", before |-> <<>>]

\* collector.clear(); the query monitor also clears its execution counters.
ClearCollector(collector) ==
  LET after == LogsAfterClear(collector, Logs)
  IN  /\ vitals' = after.vitals
      /\ resources' = after.resources
      /\ frames' = after.frames
      /\ apiCalls' = after.apiCalls
      /\ queryMetrics' = after.queryMetrics
      /\ queryStartUsed' = IF after.queryMetrics = <<>> THEN <<>> ELSE queryStartUsed
      /\ queryExecutions' = IF collector = "queryMetrics" THEN <<>> ELSE queryExecutions
      /\ cleared' = [collector |-> collector, before |-> Logs]
      /\ UNCHANGED <<apiLcpTime, apiInpEvents, apiInitialized, apiCallbacks, apiNotified,
                     queryLcpTime, queryInpEvents, queryInitialized, vitalsInitialized,
                     vitalsCallbacks, resInitialized, loafObserver>>

\* ----------------------------------------------------- aggregation calls

\* Faulty variant: the filter is applied to the log itself.
LogAfterFilter_InPlace(log, kept) == [i \in 1..Len(kept) |-> log[kept[i]]]

\* `log.filter(...)` returns a new array of the kept records (their log
\* positions are `kept`); the log is as it was.
LogAfterFilter(log, kept) == log

\* One aggregation call and its result, added to the calls made since the
\* last event.
Read(op, arg, result) ==
  /\ Len(reads) < MaxReads
  /\ reads' = Append(reads, [op |-> op, arg |-> arg, result |-> result])

\* getQueryCacheStats(): what it leaves of the log (`[...allQueries]` is
\* filtered and sorted) and of the Map (Array.from(entries) is sorted).
QueryStatsEffect ==
  /\ queryMetrics' =
       LogAfterSort(LogAfterFilter(queryMetrics, TimedQueriesAt),
                    [i \in 1..Len(queryMetrics) |-> OrZero(queryMetrics[i].fetchDuration)])
  /\ UNCHANGED <<queryStartUsed, queryExecutions, queryLcpTime, queryInpEvents,
                 queryInitialized>>

\* getPerformanceSession() of monitor k as an aggregation call
ReadPerformanceSession(k, now) ==
  /\ k \in DOMAIN instances
  /\ Read("getPerformanceSession", now, PerformanceSession(k, now).summary)
  /\ IF instances[k].queryClientInitialized THEN QueryStatsEffect ELSE UNCHANGED queryVars
  /\ resources' =
       LogAfterFilter(resources,
                      SelectSeq([i \in 1..Len(resources) |-> i],
                                LAMBDA i : resources[i].renderBlockingStatus = "blocking"))
  /\ UNCHANGED <<apiVars, vitalsVars, resInitialized, loafVars, pmVars>>

\* getQueryCacheStats()
ReadQueryCacheStats(now) ==
  /\ Read("getQueryCacheStats", now, QueryCacheStats(now))
  /\ QueryStatsEffect
  /\ UNCHANGED <<apiVars, vitalsVars, resVars, loafVars, pmVars>>

\* getLCPBlockingCalls()
ReadLCPBlockingCalls ==
  LET kept == SelectSeq([i \in 1..Len(apiCalls) |-> i], LAMBDA i : apiCalls[i].blockedLCP)
  IN  /\ Read("getLCPBlockingCalls", 0, [j \in 1..Len(kept) |-> apiCalls[kept[j]]])
      /\ apiCalls' = LogAfterFilter(apiCalls, kept)
      /\ UNCHANGED <<apiLcpTime, apiInpEvents, apiInitialized, apiCallbacks, apiNotified,
                     queryVars, vitalsVars, resVars, loafVars, pmVars>>

\* getAverageLatency()
ReadAverageLatency ==
  /\ Read("getAverageLatency", 0, AverageLatency)
  /\ UNCHANGED <<apiVars, queryVars, vitalsVars, resVars, loafVars, pmVars>>

\* getSlowestCalls(count)
ReadSlowestCalls(count) ==
  /\ Read("getSlowestCalls", count,
          [j \in 1..Len(SlowestCallsAt(count)) |-> apiCalls[SlowestCallsAt(count)[j]]])
  /\ apiCalls' = LogAfterSort(apiCalls, [i \in 1..Len(apiCalls) |-> apiCalls[i].duration])
  /\ UNCHANGED <<apiLcpTime, apiInpEvents, apiInitialized, apiCallbacks, apiNotified,
                 queryVars, vitalsVars, resVars, loafVars, pmVars>>

\* ------------------------------------------------ the wrapped window.fetch
\* interceptFetch() replaces window.fetch by a wrapper that calls the
\* original and chains .then(async response => ...).catch(error => ...).

NoFetch ==
  [stage |-> "idle", startTime |-> 0, endTime |-> 0, original |-> "none", status |-> 0,
   body |-> "none", size |-> 0, pendingRequests |-> 0, recorded |-> <<>>,
   caller |-> "none"]

\* No XMLHttpRequest has been sent.
NoXhr == [stage |-> "idle", startTime |-> 0]

\* window.fetch(...args) after interceptFetch(), with performance.now() = now:
\* the request is noted as pending and the original fetch is called.
WrappedFetch(now) ==
  /\ apiInitialized
  /\ fetchCall.stage \in {"idle", "done"}
  /\ fetchCall' = [NoFetch EXCEPT !.stage = "pending", !.startTime = now,
                                  !.pendingRequests = 1, !.caller = "pending"]
  /\ UNCHANGED apiVars

\* The original fetch resolves with a response (its status; a body of `size`
\* bytes that ends, fails, or does not end), with performance.now() = now:
\* the .then handler runs up to `await clone.blob()`.
OriginalFulfils(status, body, size, now) ==
  /\ fetchCall.stage = "pending"
  /\ now >= fetchCall.startTime
  /\ fetchCall' = [fetchCall EXCEPT !.stage = "reading", !.endTime = now,
                                    !.original = "fulfilled", !.status = status,
                                    !.body = body, !.size = size]
  /\ UNCHANGED apiVars

\* `size = blob.size` in the try block; 0 when clone.blob() rejects
BlobSize(body, size) == IF body = "ends" THEN size ELSE 0

\* Faulty variant: the record is made only for a request still listed in
\* pendingRequests.
BodySettles_IfPending ==
  /\ fetchCall.stage = "reading"
  /\ fetchCall.body \in {"ends", "fails"}
  /\ IF fetchCall.pendingRequests = 1
       THEN RecordAPICall(fetchCall.startTime, fetchCall.endTime - fetchCall.startTime)
       ELSE UNCHANGED apiVars
  /\ fetchCall' = [fetchCall EXCEPT
       !.stage = "done", !.pendingRequests = 0, !.caller = "response",
       !.recorded = IF fetchCall.pendingRequests = 1
                      THEN Append(@, [status |-> fetchCall.status,
                                      size |-> BlobSize(fetchCall.body, fetchCall.size)])
                      ELSE @]

\* clone.blob() settles: the rest of the .then handler runs (recordAPICall,
\* pendingRequests.delete, return response).
BodySettles ==
  /\ fetchCall.stage = "reading"
  /\ fetchCall.body \in {"ends", "fails"}
  /\ RecordAPICall(fetchCall.startTime, fetchCall.endTime - fetchCall.startTime)
  /\ fetchCall' = [fetchCall EXCEPT
       !.stage = "done", !.pendingRequests = 0, !.caller = "response",
       !.recorded = Append(@, [status |-> fetchCall.status,
                               size |-> BlobSize(fetchCall.body, fetchCall.size)])]

\* Faulty variant: no .catch on the chain; a rejection passes through
\* unrecorded.
OriginalRejects_Unrecorded(now) ==
  /\ fetchCall.stage = "pending"
  /\ now >= fetchCall.startTime
  /\ UNCHANGED apiVars
  /\ fetchCall' = [fetchCall EXCEPT
       !.stage = "done", !.endTime = now, !.original = "rejected", !.caller = "error"]

\* The original fetch rejects, with performance.now() = now: the .then
\* handler is passed over and the .catch handler runs (recordAPICall,
\* pendingRequests.delete, throw error).
OriginalRejects(now) ==
  /\ fetchCall.stage = "pending"
  /\ now >= fetchCall.startTime
  /\ RecordAPICall(fetchCall.startTime, now - fetchCall.startTime)
  /\ fetchCall' = [fetchCall EXCEPT
       !.stage = "done", !.endTime = now, !.original = "rejected",
       !.pendingRequests = 0, !.caller = "error",
       !.recorded = Append(@, [status |-> 0, size |-> 0])]

\* clear() as the wrapper's bookkeeping sees it: pendingRequests.clear()
\* empties the Map of requests in flight; the closures of the requests in
\* flight keep their url, method and startTime.
ClearPendingRequests == fetchCall' = [fetchCall EXCEPT !.pendingRequests = 0]

\* xhr.send(body) after interceptXHR(), on a request that was opened, with
\* performance.now() = now: the loadend listener is added and the original
\* send is called.
XhrSend(now) ==
  /\ apiInitialized
  /\ xhrCall.stage \in {"idle", "done"}
  /\ xhrCall' = [stage |-> "sent", startTime |-> now]
  /\ UNCHANGED apiVars

\* The loadend listener, with performance.now() = now
XhrLoadEnd(now) ==
  /\ xhrCall.stage = "sent"
  /\ now >= xhrCall.startTime
  /\ RecordAPICall(xhrCall.startTime, now - xhrCall.startTime)
  /\ xhrCall' = [xhrCall EXCEPT !.stage = "done"]

PMInit ==
  /\ instances = <<>>
  /\ nextOid = 1
  /\ returned = Null

\* --------------------------------------------------------- sendToAnalytics

NoAnalytics == [status |-> "idle", fetch |-> "none", intercepted |-> FALSE, startTime |-> 0]

\* sendToAnalytics(endpoint) up to `await fetch(...)`, with performance.now()
\* = now: the snapshot is taken and the request issued, through the API
\* monitor's wrapper when window.fetch is patched.
SendToAnalytics(k, now) ==
  /\ k \in DOMAIN instances
  /\ analytics.status # "pending"
  /\ analytics' = [status |-> "pending", fetch |-> "pending",
                   intercepted |-> apiInitialized, startTime |-> now]

\* Faulty variant: no catch around the awaited fetch.
AfterFetch_Uncaught(outcome) == IF outcome = "rejected" THEN "rejected" ELSE "resolved"

\* try { await fetch(...) } catch { console.error }: the state of the
\* promise sendToAnalytics returned, once the fetch has settled.
AfterFetch(outcome) == "resolved"

\* The fetch settles at `now`, fulfilled (any HTTP status) or rejected: the
\* API monitor's wrapper, when the request went through it, records the
\* call and passes the outcome on; then sendToAnalytics continues.
FetchSettles(outcome, now) ==
  /\ analytics.status = "pending"
  /\ IF analytics.intercepted
       THEN RecordAPICall(analytics.startTime, now - analytics.startTime)
       ELSE UNCHANGED apiVars
  /\ analytics' = [analytics EXCEPT !.status = AfterFetch(outcome), !.fetch = outcome]

\* sendToAnalytics after `await fetch(...)`: the continuation runs in the
\* microtask that follows the settling of the promise it awaited, before any
\* other call of the application.
SendContinues(outcome) ==
  /\ analytics.status = "pending"
  /\ analytics' = [analytics EXCEPT !.status = AfterFetch(outcome), !.fetch = outcome]

\* ------------------------------------------- observers of the collectors

NoNotification == [collector |-> "none", calls |-> <<>>, escaped |-> FALSE]

\* Faulty variant: the callback is called outside any try/catch, so the
\* first exception ends the pass and leaves the handler.
ForEachCallback_NoCatch(callbacks, metric, log) ==
  LET throwers == {i \in 1..Len(callbacks) : callbacks[i] = "throws"}
      last == IF throwers = {} THEN Len(callbacks)
              ELSE CHOOSE i \in throwers : \A j \in throwers : i <= j
  IN  [calls   |-> [i \in 1..last |->
                     [observer |-> i,
                      metric   |-> metric,
                      logged   |-> log # <<>> /\ log[Len(log)] = metric,
                      outcome  |-> IF callbacks[i] = "throws" THEN "thrown"
                                   ELSE "returned"]],
       escaped |-> throwers # {}]

\* callbacks.forEach(callback => { try { callback(metric) } catch { log } }),
\* run when the collector's log is `log`: one call per registered observer,
\* in registration order; an exception is caught and the pass goes on.
ForEachCallback(callbacks, metric, log) ==
  [calls   |-> [i \in 1..Len(callbacks) |->
                 [observer |-> i,
                  metric   |-> metric,
                  logged   |-> log # <<>> /\ log[Len(log)] = metric,
                  outcome  |-> IF callbacks[i] = "throws" THEN "caught"
                               ELSE "returned"]],
   escaped |-> FALSE]

Notification(collector, pass) ==
  [collector |-> collector, calls |-> pass.calls, escaped |-> pass.escaped]

\* onMetric(callback)
OnMetric(kind) ==
  /\ vitalsCallbacks' = Append(vitalsCallbacks, kind)
  /\ UNCHANGED <<vitals, vitalsInitialized>>

\* onQuery(callback)
OnQuery(kind) == queryCallbacks' = Append(queryCallbacks, kind)

\* onResource(callback)
OnResource(kind) == resCallbacks' = Append(resCallbacks, kind)

\* onLongFrame(callback)
OnLongFrame(kind) == loafCallbacks' = Append(loafCallbacks, kind)

ObserversInit ==
  /\ queryCallbacks = <<>>
  /\ resCallbacks = <<>>
  /\ loafCallbacks = <<>>
  /\ notified = NoNotification

\* ---------------------------------------------------------- specifications
Init ==
  /\ ApiInit /\ QueryInit /\ VitalsInit /\ ResourceInit /\ LoafInit /\ PMInit
  /\ selection = NoSelection
  /\ ObserversInit
  /\ analytics = NoAnalytics
  /\ session = NoSession
  /\ report = NoReport
  /\ cleared = NoClear
  /\ reads = <<>>
  /\ fetchCall = NoFetch
  /\ xhrCall = NoXhr

ApiFrame == UNCHANGED <<queryVars, vitalsVars, resVars, loafVars, pmVars, selection, obsVars>>

NextApi ==
  \/ ApiInitialize /\ ApiFrame
  \/ \E kind \in ObserverKinds : OnAPICall(kind) /\ ApiFrame
  \/ \E sh \in ApiShapes : RecordAPICall(sh[1], sh[2]) /\ ApiFrame
  \/ \E t \in Instants : ApiSetLCPTime(t) /\ ApiFrame
  \/ \E t \in Instants : ApiRecordINPEvent(t) /\ ApiFrame
  \/ ApiClear /\ ApiFrame

SpecApi == Init /\ [][NextApi]_vars

\* ------------------------------------- the two monitors driven in lock step
\* A request and a query fetch with the same start and the same duration
\* settle together, and every paint / interaction instant is handed to both
\* monitors (as PerformanceMonitor's correlation observer does).

PairInitialize == ApiInitialize /\ QueryInitialize(<<>>)

\* The request (s, d) settles; the query's fetch started at s and its
\* 'updated' event is handled at s + d; the query holds data stamped u.
PairEvent(s, d, u) ==
  [type |-> "updated", queryKey |-> "a", fetchStartTime |-> s, now |-> s + d,
   dataUpdatedAt |-> u, status |-> "success", fetchStatus |-> "idle", staleTime |-> 0]

PairArrive(s, d, u) == RecordAPICall(s, d) /\ HandleQueryEvent(PairEvent(s, d, u))

PairSetLCPTime(t) == ApiSetLCPTime(t) /\ QuerySetLCPTime(t)

PairRecordINPEvent(t) == ApiRecordINPEvent(t) /\ QueryRecordINPEvent(t)

PairClear == ApiClear /\ QueryClear

PairFrame == UNCHANGED <<vitalsVars, resVars, loafVars, pmVars, selection, obsVars>>

NextPair ==
  \/ PairInitialize /\ PairFrame
  \/ \E s \in 1..MaxNow : \E d \in 0..(MaxNow - s) : \E u \in 1..(s + d) :
       PairArrive(s, d, u) /\ PairFrame
  \/ \E t \in 1..MaxInstant : PairSetLCPTime(t) /\ PairFrame
  \/ \E t \in 1..MaxInstant : PairRecordINPEvent(t) /\ PairFrame
  \/ PairClear /\ PairFrame

SpecPair == Init /\ [][NextPair]_vars

\* ------------------------- the two correlating monitors, any interleaving
\* Requests and cache events arrive in any order, interleaved in any way
\* with the paint / interaction instants, each of which is handed to both
\* monitors.

\* A cache event for query "a" handled at `now`: the fetch started at fs
\* (0: no _fetchStartTime) and the data held was stamped at u (0: none yet).
CorrEvents ==
  {[type |-> ty, queryKey |-> "a", fetchStartTime |-> fs, now |-> n, dataUpdatedAt |-> u,
    status |-> IF u > 0 THEN "success" ELSE "pending", fetchStatus |-> "idle",
    staleTime |-> 0] :
     ty \in {"updated", "added"}, fs \in 0..MaxNow, n \in {MaxNow}, u \in 0..MaxNow}

CorrFrame == UNCHANGED <<vitalsVars, resVars, loafVars, pmVars, selection, obsVars>>

NextNoClear ==
  \/ ApiInitialize /\ UNCHANGED queryVars /\ CorrFrame
  \/ \E c \in CachedQueries : QueryInitialize(c) /\ UNCHANGED apiVars /\ CorrFrame
  \/ \E s \in 0..MaxStart : \E d \in 0..MaxDur :
       RecordAPICall(s, d) /\ UNCHANGED queryVars /\ CorrFrame
  \/ \E ev \in CorrEvents : HandleQueryEvent(ev) /\ UNCHANGED apiVars /\ CorrFrame
  \/ \E t \in 1..MaxInstant : PairSetLCPTime(t) /\ CorrFrame
  \/ \E t \in 1..MaxInstant : PairRecordINPEvent(t) /\ CorrFrame

SpecNoClear == Init /\ [][NextNoClear]_vars

NextCorr ==
  \/ ApiInitialize /\ UNCHANGED queryVars /\ CorrFrame
  \/ \E c \in CachedQueries : QueryInitialize(c) /\ UNCHANGED apiVars /\ CorrFrame
  \/ \E s \in 0..MaxStart : \E d \in 0..MaxDur :
       RecordAPICall(s, d) /\ UNCHANGED queryVars /\ CorrFrame
  \/ \E ev \in CorrEvents : HandleQueryEvent(ev) /\ UNCHANGED apiVars /\ CorrFrame
  \/ \E t \in 1..MaxInstant : PairSetLCPTime(t) /\ CorrFrame
  \/ \E t \in 1..MaxInstant : PairRecordINPEvent(t) /\ CorrFrame
  \/ ApiClear /\ UNCHANGED queryVars /\ CorrFrame
  \/ QueryClear /\ UNCHANGED apiVars /\ CorrFrame

SpecCorr == Init /\ [][NextCorr]_vars

\* ------------------------------- PerformanceMonitor instances in one page
\* The hosting application looks monitors up by framework key and drives
\* them; the platform delivers vitals, requests, cache events, resource
\* entries and long frames.

\* A stylesheet of 4 bytes on the wire, twice that decoded.
SessionResource ==
  [startTime |-> 1, duration |-> 1, renderBlockingStatus |-> "blocking",
   likelyBlocking |-> TRUE, transferSize |-> 4, encodedBodySize |-> 2,
   decodedBodySize |-> 4]

\* A 60 ms frame.
SessionFrame == [duration |-> 60, blockingDuration |-> 10, scripts |-> 1]

SessionNow == MaxNow

\* The default key of getPerformanceMonitor().
SessionKey == "other"

NextSession ==
  \/ GetPerformanceMonitor(SessionKey)
     /\ UNCHANGED <<apiVars, queryVars, vitalsVars, resVars, loafVars, selection, obsVars>>
  \/ \E support \in {"long-animation-frame", "longtask"} :
       PMInitialize(SessionKey, support, MaxSetups)
       /\ UNCHANGED <<queryVars, pmVars, selection, obsVars>>
  \/ PMInitializeQueryClient(SessionKey, <<>>)
     /\ UNCHANGED <<apiVars, vitalsVars, resVars, loafVars, nextOid, returned, selection,
                    resCallbacks, loafCallbacks, notified, analytics, callerVars>>
  \/ \E name \in MetricNames :
       VitalsMetric(name, MaxInstant, 1, MaxSessionLog)
       /\ UNCHANGED <<resVars, loafVars, pmVars, selection, obsVars>>
  \/ /\ Len(apiCalls) < MaxSessionLog
     /\ RecordAPICall(1, MaxDur)
     /\ UNCHANGED <<queryVars, vitalsVars, resVars, loafVars, pmVars, selection, obsVars>>
  \/ /\ Len(queryMetrics) < MaxSessionLog
     /\ HandleQueryEvent(PairEvent(1, MaxDur, 1))
     /\ UNCHANGED <<apiVars, vitalsVars, resVars, loafVars, pmVars, selection, obsVars>>
  \/ HandleResourceEntry(SessionResource, MaxSessionLog)
     /\ UNCHANGED <<apiVars, queryVars, vitalsVars, loafVars, pmVars, selection, obsVars>>
  \/ HandleFrameEntry(SessionFrame, MaxSessionLog)
     /\ UNCHANGED <<apiVars, queryVars, vitalsVars, resVars, pmVars, selection, obsVars>>
  \/ MarkHydrationStart(SessionKey, 1)
     /\ UNCHANGED <<apiVars, queryVars, vitalsVars, resVars, loafVars, nextOid, returned, selection, obsVars>>
  \/ MarkHydrationEnd(SessionKey, 2, 1)
     /\ UNCHANGED <<apiVars, queryVars, vitalsVars, resVars, loafVars, nextOid, returned, selection, obsVars>>
  \/ PMClear(SessionKey) /\ UNCHANGED <<nextOid, returned, selection, obsVars>>

SpecSession == Init /\ [][NextSession]_vars

\* ------------------------------------------ the registry of monitors
\* Monitors are looked up under every framework key, initialized and
\* cleared, while requests, cache events and paint instants arrive.

NextRegistry ==
  \/ \E k \in Frameworks :
       GetPerformanceMonitor(k)
       /\ UNCHANGED <<apiVars, queryVars, vitalsVars, resVars, loafVars, selection, obsVars>>
  \/ \E k \in Frameworks :
       PMInitialize(k, "long-animation-frame", MaxSetups)
       /\ UNCHANGED <<queryVars, pmVars, selection, obsVars>>
  \/ \E k \in Frameworks :
       PMInitializeQueryClient(k, <<>>)
       /\ UNCHANGED <<apiVars, vitalsVars, resVars, loafVars, nextOid, returned, selection,
                    resCallbacks, loafCallbacks, notified, analytics, callerVars>>
  \/ VitalsMetric("LCP", MaxInstant, 1, MaxSessionLog)
     /\ UNCHANGED <<resVars, loafVars, pmVars, selection, obsVars>>
  \/ /\ Len(apiCalls) < MaxSessionLog
     /\ RecordAPICall(1, MaxDur)
     /\ UNCHANGED <<queryVars, vitalsVars, resVars, loafVars, pmVars, selection, obsVars>>
  \/ /\ Len(queryMetrics) < MaxSessionLog
     /\ HandleQueryEvent(PairEvent(1, MaxDur, 1))
     /\ UNCHANGED <<apiVars, vitalsVars, resVars, loafVars, pmVars, selection, obsVars>>
  \/ \E k \in Frameworks :
       PMClear(k) /\ UNCHANGED <<nextOid, returned, selection, obsVars>>

SpecRegistry == Init /\ [][NextRegistry]_vars

\* -------------------------------------------------- the top-k getters
\* Requests, resources and cache events are logged, and the getters are
\* called with any count, or with none (the default).

\* The slower a resource, the smaller.
TopKResources ==
  {[startTime |-> 1, duration |-> d, renderBlockingStatus |-> "absent",
    likelyBlocking |-> FALSE, transferSize |-> MaxDur + 1 - d, encodedBodySize |-> 0,
    decodedBodySize |-> 0] : d \in 1..MaxDur}

\* Cache events of two queries: no data yet (u = 0), or a fetch of 0 or MaxDur.
TopKEvents ==
  {[type |-> "updated", queryKey |-> k, fetchStartTime |-> MaxNow, now |-> MaxNow + d,
    dataUpdatedAt |-> u, status |-> IF u > 0 THEN "success" ELSE "pending",
    fetchStatus |-> "idle", staleTime |-> 0] :
     k \in QueryKeys, d \in {0, MaxDur}, u \in {0, MaxNow}}

Counts == (0..MaxCount) \cup {TopKDefault}

TopKInitialize == ApiInitialize /\ ResourceInitialize /\ QueryInitialize(<<>>)

TopKClear == ApiClear /\ ResourceClear /\ QueryClear

NextTopK ==
  \/ TopKInitialize /\ UNCHANGED <<vitalsVars, loafVars, pmVars, selection, obsVars>>
  \/ \E d \in 1..MaxDur :
       RecordAPICall(0, d)
       /\ UNCHANGED <<queryVars, vitalsVars, resVars, loafVars, pmVars, selection, obsVars>>
  \/ \E entry \in TopKResources :
       HandleResourceEntry(entry, MaxResourceLog)
       /\ UNCHANGED <<apiVars, queryVars, vitalsVars, loafVars, pmVars, selection, obsVars>>
  \/ \E ev \in TopKEvents :
       HandleQueryEvent(ev)
       /\ UNCHANGED <<apiVars, vitalsVars, resVars, loafVars, pmVars, selection, obsVars>>
  \/ TopKClear /\ UNCHANGED <<vitalsVars, loafVars, pmVars, selection, obsVars>>
  \/ \E count \in Counts :
       CallGetSlowestCalls(count)
       /\ UNCHANGED <<queryVars, vitalsVars, resVars, loafVars, pmVars, obsVars>>
  \/ \E count \in Counts :
       CallGetLargestResources(count)
       /\ UNCHANGED <<apiVars, queryVars, vitalsVars, loafVars, pmVars, obsVars>>
  \/ \E count \in Counts :
       CallGetSlowestResources(count)
       /\ UNCHANGED <<apiVars, queryVars, vitalsVars, loafVars, pmVars, obsVars>>
  \/ CallGetQueryCacheStats
     /\ UNCHANGED <<apiVars, queryVars, vitalsVars, resVars, loafVars, pmVars, obsVars>>

SpecTopK == Init /\ [][NextTopK]_vars

\* ------------------------------------------ the resource-timing collector
\* Resource entries by body sizes: 300 and 100 decoded bytes in 100 encoded,
\* a body of no encoded byte, and an empty body in 100 encoded bytes.
RatioEntries ==
  {[startTime |-> 1, duration |-> 1, renderBlockingStatus |-> "absent",
    likelyBlocking |-> FALSE, transferSize |-> sz[1] + 1,
    encodedBodySize |-> sz[1], decodedBodySize |-> sz[2]] :
     sz \in {<<100, 300>>, <<100, 100>>, <<0, 300>>, <<100, 0>>}}

NextResource ==
  \/ \E platform \in ResourcePlatforms :
       ResourceInitializeOn(platform)
       /\ UNCHANGED <<apiVars, queryVars, vitalsVars, loafVars, pmVars, selection, obsVars>>
  \/ \E entry \in RatioEntries :
       HandleResourceEntry(entry, MaxRatioLog)
       /\ UNCHANGED <<apiVars, queryVars, vitalsVars, loafVars, pmVars, selection, obsVars>>
  \/ ResourceDisconnect
     /\ UNCHANGED <<apiVars, queryVars, vitalsVars, loafVars, pmVars, selection, obsVars>>
  \/ ResourceClear
     /\ UNCHANGED <<apiVars, queryVars, vitalsVars, loafVars, pmVars, selection, obsVars>>

SpecResource == Init /\ [][NextResource]_vars

\* ------------------------------------------------- the long-frame collector
\* Platform entries of 40, 50 and 120 ms, with a blockingDuration of 10 or
\* without one, with one or two attributed scripts or without a list.
FrameEntries ==
  [duration : {40, 50, 120}, blockingDuration : {Null, 10}, scripts : {Null, 1, 2}]

NextLoaf ==
  \/ \E platform \in LoafPlatforms :
       LoafInitializeOn(platform)
       /\ UNCHANGED <<apiVars, queryVars, vitalsVars, resVars, pmVars, selection, obsVars>>
  \/ \E entry \in FrameEntries :
       HandleFrameEntry(entry, MaxFrameLog)
       /\ UNCHANGED <<apiVars, queryVars, vitalsVars, resVars, pmVars, selection, obsVars>>
  \/ LoafDisconnect
     /\ UNCHANGED <<apiVars, queryVars, vitalsVars, resVars, pmVars, selection, obsVars>>
  \/ LoafClear
     /\ UNCHANGED <<apiVars, queryVars, vitalsVars, resVars, pmVars, selection, obsVars>>

SpecLoaf == Init /\ [][NextLoaf]_vars

\* ------------------------------------------ the collectors with observers
\* One monitor is initialized; observers that return or throw are registered
\* with every collector; a request, a metric, a cache event, a resource and
\* a long frame arrive.  Each handler appends and then runs its
\* callbacks.forEach pass on the log it has just appended to.

ObservedEvents ==
  {[type |-> ty, queryKey |-> "a", fetchStartTime |-> 1, now |-> MaxNow,
    dataUpdatedAt |-> 1, status |-> "success", fetchStatus |-> "idle", staleTime |-> 0] :
     ty \in {"updated", "added"}}

\* onAPICall, onMetric, onQuery, onResource and onLongFrame with observers
\* that behave alike.
SubscribeAll(kind) ==
  /\ Len(queryCallbacks) < MaxCallbacks
  /\ apiCallbacks' = Append(apiCallbacks, kind)
  /\ OnMetric(kind)
  /\ OnQuery(kind)
  /\ OnResource(kind)
  /\ OnLongFrame(kind)
  /\ UNCHANGED <<apiCalls, apiLcpTime, apiInpEvents, apiInitialized, apiNotified>>

\* recordAPICall
ObservedAPICall(startTime, duration) ==
  /\ Len(apiCalls) < MaxNotifyLog
  /\ RecordAPICall(startTime, duration)
  /\ notified' = Notification("api", ForEachCallback(apiCallbacks,
                                      ApiMetric(startTime, duration), apiCalls'))

\* storeMetric
ObservedMetric(name, value, now) ==
  /\ VitalsMetric(name, value, now, MaxNotifyLog)
  /\ notified' = Notification("vitals", ForEachCallback(vitalsCallbacks,
                                         VitalsRecord(name, value, now), vitals'))

\* handleQueryEvent
ObservedQueryEvent(ev) ==
  /\ Len(queryMetrics) < MaxNotifyLog
  /\ HandleQueryEvent(ev)
  /\ notified' = IF ev.type # "updated" THEN notified
                 ELSE Notification("query", ForEachCallback(queryCallbacks,
                                            QueryMetric(ev), queryMetrics'))

\* handleResourceEntry
ObservedResourceEntry(entry) ==
  /\ HandleResourceEntry(entry, MaxNotifyLog)
  /\ notified' = Notification("resource", ForEachCallback(resCallbacks,
                                           ResourceRecord(entry), resources'))

\* handleLoAFEntry / handleLongTaskEntry with notifyCallbacks
ObservedFrameEntry(entry) ==
  /\ HandleFrameEntry(entry, MaxNotifyLog)
  /\ notified' = Notification("loaf", ForEachCallback(loafCallbacks,
                                       frames'[Len(frames')], frames'))

NextNotify ==
  \/ GetPerformanceMonitor(SessionKey)
     /\ UNCHANGED <<apiVars, queryVars, vitalsVars, resVars, loafVars, selection, obsVars>>
  \/ \E support \in {"long-animation-frame", "longtask"} :
       PMInitialize(SessionKey, support, MaxCallbacks + 1)
       /\ UNCHANGED <<queryVars, pmVars, selection, obsVars>>
  \/ PMInitializeQueryClient(SessionKey, <<>>)
     /\ UNCHANGED <<apiVars, vitalsVars, resVars, loafVars, nextOid, returned, selection,
                    resCallbacks, loafCallbacks, notified, analytics, callerVars>>
  \/ \E kind \in ObserverKinds :
       SubscribeAll(kind)
       /\ UNCHANGED <<queryVars, resVars, loafVars, pmVars, selection, notified, analytics, callerVars>>
  \/ ObservedAPICall(0, MaxDur)
     /\ UNCHANGED <<queryVars, vitalsVars, resVars, loafVars, pmVars, selection,
                    queryCallbacks, resCallbacks, loafCallbacks, analytics, callerVars>>
  \/ \E name \in {"LCP", "CLS"} :
       ObservedMetric(name, 1, 1)
       /\ UNCHANGED <<resVars, loafVars, pmVars, selection,
                      queryCallbacks, resCallbacks, loafCallbacks, analytics, callerVars>>
  \/ \E ev \in ObservedEvents :
       ObservedQueryEvent(ev)
       /\ UNCHANGED <<apiVars, vitalsVars, resVars, loafVars, pmVars, selection,
                      queryCallbacks, resCallbacks, loafCallbacks, analytics, callerVars>>
  \/ ObservedResourceEntry(SessionResource)
     /\ UNCHANGED <<apiVars, queryVars, vitalsVars, loafVars, pmVars, selection,
                    queryCallbacks, resCallbacks, loafCallbacks, analytics, callerVars>>
  \/ ObservedFrameEntry(SessionFrame)
     /\ UNCHANGED <<apiVars, queryVars, vitalsVars, resVars, pmVars, selection,
                    queryCallbacks, resCallbacks, loafCallbacks, analytics, callerVars>>

SpecNotify == Init /\ [][NextNotify]_vars

\* ------------------------------------------- partially populated raw events
\* The long-frame, resource and query collectors are initialized and handed
\* entries and events in which fields or sub-objects may be missing.

\* Long-frame entries with or without duration, blockingDuration, scripts.
RawFrames == [duration : {Null, 60}, blockingDuration : {Null, 10}, scripts : {Null, 1}]

\* Resource entries with or without duration and body sizes.
RawResources ==
  {[startTime |-> 1, duration |-> d, renderBlockingStatus |-> "non-blocking",
    likelyBlocking |-> FALSE, transferSize |-> sz, encodedBodySize |-> sz,
    decodedBodySize |-> sz] : d \in {Null, 1}, sz \in {Null, 2}}

\* Cache events with or without `query`, `query.state` and the numeric
\* fields of the state and the options.
RawQueryEvents ==
  {[query |-> q, state |-> st,
    event |-> [type |-> "updated", queryKey |-> "a", fetchStartTime |-> 1, now |-> MaxNow,
               dataUpdatedAt |-> u, status |-> "success", fetchStatus |-> "idle",
               staleTime |-> stale]] :
     q \in {"present", "absent"}, st \in {"present", "absent"}, u \in {Null, 1},
     stale \in {Null, 1}}

\* handleQueryEvent(event) on a raw event: `if (!query) return`; reading
\* query.state.dataUpdatedAt of a query without state throws before anything
\* is stored; otherwise the event is handled.
RawQueryEvent(raw) ==
  /\ queryInitialized
  /\ Len(queryMetrics) < MaxRawLog
  /\ IF raw.event.type # "updated" \/ raw.query = "absent"
       THEN UNCHANGED <<queryVars, notified>>
       ELSE IF raw.state = "absent"
         THEN /\ UNCHANGED queryVars
              /\ notified' = [collector |-> "query", calls |-> <<>>, escaped |-> TRUE]
         ELSE /\ HandleQueryEvent(raw.event)
              /\ notified' = Notification("query", ForEachCallback(queryCallbacks,
                                                 QueryMetric(raw.event), queryMetrics'))

NextRaw ==
  \/ ResourceInitialize
     /\ UNCHANGED <<apiVars, queryVars, vitalsVars, loafVars, pmVars, selection, obsVars>>
  \/ \E support \in {"long-animation-frame", "longtask"} :
       LoafInitialize(support)
       /\ UNCHANGED <<apiVars, queryVars, vitalsVars, resVars, pmVars, selection, obsVars>>
  \/ QueryInitialize(<<>>)
     /\ UNCHANGED <<apiVars, vitalsVars, resVars, loafVars, pmVars, selection, obsVars>>
  \/ \E entry \in RawFrames :
       ObservedFrameEntry(entry)
       /\ UNCHANGED <<apiVars, queryVars, vitalsVars, resVars, pmVars, selection,
                      queryCallbacks, resCallbacks, loafCallbacks, analytics, callerVars>>
  \/ \E entry \in RawResources :
       ObservedResourceEntry(entry)
       /\ UNCHANGED <<apiVars, queryVars, vitalsVars, loafVars, pmVars, selection,
                      queryCallbacks, resCallbacks, loafCallbacks, analytics, callerVars>>
  \/ \E raw \in RawQueryEvents :
       RawQueryEvent(raw)
       /\ UNCHANGED <<apiVars, vitalsVars, resVars, loafVars, pmVars, selection,
                      queryCallbacks, resCallbacks, loafCallbacks, analytics, callerVars>>

SpecRaw == Init /\ [][NextRaw]_vars

\* ------------------------------------------ collectors that are disconnected
\* The long-frame, resource and query collectors are initialized (on any
\* platform, over any cache), fed by the platform, and disconnected.

NextDisconnect ==
  \/ \E platform \in ResourcePlatforms :
       ResourceInitializeOn(platform)
       /\ UNCHANGED <<apiVars, queryVars, vitalsVars, loafVars, pmVars, selection, obsVars>>
  \/ \E platform \in LoafPlatforms :
       LoafInitializeOn(platform)
       /\ UNCHANGED <<apiVars, queryVars, vitalsVars, resVars, pmVars, selection, obsVars>>
  \/ \E cached \in CachedQueries :
       QueryInitialize(cached)
       /\ UNCHANGED <<apiVars, vitalsVars, resVars, loafVars, pmVars, selection, obsVars>>
  \/ HandleResourceEntry(SessionResource, MaxSessionLog)
     /\ UNCHANGED <<apiVars, queryVars, vitalsVars, loafVars, pmVars, selection, obsVars>>
  \/ HandleFrameEntry(SessionFrame, MaxSessionLog)
     /\ UNCHANGED <<apiVars, queryVars, vitalsVars, resVars, pmVars, selection, obsVars>>
  \/ \E ev \in ObservedEvents :
       HandleQueryEvent(ev)
       /\ UNCHANGED <<apiVars, vitalsVars, resVars, loafVars, pmVars, selection, obsVars>>
  \/ ResourceDisconnect
     /\ UNCHANGED <<apiVars, queryVars, vitalsVars, loafVars, pmVars, selection, obsVars>>
  \/ LoafDisconnect
     /\ UNCHANGED <<apiVars, queryVars, vitalsVars, resVars, pmVars, selection, obsVars>>
  \/ QueryDisconnect
     /\ UNCHANGED <<apiVars, vitalsVars, resVars, loafVars, pmVars, selection, obsVars>>

SpecDisconnect == Init /\ [][NextDisconnect]_vars

\* -------------------------------------------- a monitor that reports home
\* One monitor is initialized, the collectors log a request, a metric, a
\* resource and a long frame, and sendToAnalytics is called; the request it
\* makes is fulfilled or rejected later, other events arriving meanwhile.

NextAnalytics ==
  \/ GetPerformanceMonitor(SessionKey)
     /\ UNCHANGED <<apiVars, queryVars, vitalsVars, resVars, loafVars, selection, obsVars>>
  \/ \E support \in {"long-animation-frame", "longtask"} :
       PMInitialize(SessionKey, support, MaxSetups)
       /\ UNCHANGED <<queryVars, pmVars, selection, obsVars>>
  \/ RecordAPICall(1, MaxDur)
     /\ UNCHANGED <<queryVars, vitalsVars, resVars, loafVars, pmVars, selection, obsVars>>
  \/ VitalsMetric("LCP", MaxInstant, 1, MaxSessionLog)
     /\ UNCHANGED <<resVars, loafVars, pmVars, selection, obsVars>>
  \/ HandleResourceEntry(SessionResource, MaxSessionLog)
     /\ UNCHANGED <<apiVars, queryVars, vitalsVars, loafVars, pmVars, selection, obsVars>>
  \/ HandleFrameEntry(SessionFrame, MaxSessionLog)
     /\ UNCHANGED <<apiVars, queryVars, vitalsVars, resVars, pmVars, selection, obsVars>>
  \/ SendToAnalytics(SessionKey, 0)
     /\ UNCHANGED <<apiVars, queryVars, vitalsVars, resVars, loafVars, pmVars, selection,
                    queryCallbacks, resCallbacks, loafCallbacks, notified, callerVars>>
  \/ \E outcome \in {"fulfilled", "rejected"} :
       FetchSettles(outcome, MaxDur)
       /\ UNCHANGED <<queryVars, vitalsVars, resVars, loafVars, pmVars, selection,
                      queryCallbacks, resCallbacks, loafCallbacks, notified, callerVars>>

SpecAnalytics == Init /\ [][NextAnalytics]_vars

\* ------------------------------------------- a session object in use
\* The application takes a session object and keeps it while metrics,
\* requests and cache events go on arriving and the monitor is cleared.

NextSnapshot ==
  \/ GetPerformanceMonitor(SessionKey)
     /\ UNCHANGED <<apiVars, queryVars, vitalsVars, resVars, loafVars, selection, obsVars>>
  \/ PMInitialize(SessionKey, "long-animation-frame", MaxSetups)
     /\ UNCHANGED <<queryVars, pmVars, selection, obsVars>>
  \/ PMInitializeQueryClient(SessionKey, <<>>)
     /\ UNCHANGED <<apiVars, vitalsVars, resVars, loafVars, nextOid, returned, selection,
                    resCallbacks, loafCallbacks, notified, analytics, report, cleared, reads, fetchCall, xhrCall>>
     /\ session' = Reread(session, apiCalls', queryMetrics')
  \/ \E name \in {"LCP", "INP"} :
       VitalsMetric(name, MaxInstant, 1, MaxSnapshotLog)
       /\ UNCHANGED <<resVars, loafVars, pmVars, selection, collectorObs, report, cleared, reads, fetchCall, xhrCall>>
       /\ session' = Reread(session, apiCalls', queryMetrics')
  \/ /\ Len(apiCalls) < MaxSnapshotLog
     /\ RecordAPICall(1, MaxDur)
     /\ UNCHANGED <<queryVars, vitalsVars, resVars, loafVars, pmVars, selection,
                    collectorObs, report, cleared, reads, fetchCall, xhrCall>>
     /\ session' = Reread(session, apiCalls', queryMetrics')
  \/ /\ Len(queryMetrics) < MaxSnapshotLog
     /\ HandleQueryEvent(PairEvent(1, MaxDur, 1))
     /\ UNCHANGED <<apiVars, vitalsVars, resVars, loafVars, pmVars, selection,
                    collectorObs, report, cleared, reads, fetchCall, xhrCall>>
     /\ session' = Reread(session, apiCalls', queryMetrics')
  \/ PMClear(SessionKey)
     /\ UNCHANGED <<nextOid, returned, selection, collectorObs, report, cleared, reads, fetchCall, xhrCall>>
     /\ session' = Released(session, TRUE, instances[SessionKey].queryClientInitialized)
  \/ GetPerformanceSession(SessionKey, SessionNow)
     /\ UNCHANGED <<apiVars, queryVars, vitalsVars, resVars, loafVars, pmVars, selection,
                    collectorObs, report, cleared, reads, fetchCall, xhrCall>>

SpecSnapshot == Init /\ [][NextSnapshot]_vars

\* ------------------------------------------------ reports of a session
\* The application asks for reports, with any of the recognised options
\* given or left out, at any point of a session.  `report` holds the string
\* generateReport returned for the step in which it is returned.

\* The options a caller passes: any of the four include flags given as
\* false, or all four given as true; or a row cap and a title, with every
\* flag left out or given as false.
ReportOptionSets ==
  LET flags == {"includeResources", "includeLongFrames", "includeApiCalls",
                "includeQueryCache"}
      shown == [maxResources |-> 1, customTitle |-> "Checkout"]
      given == {[key \in keys |-> FALSE] : keys \in SUBSET flags}
                 \cup {[key \in flags |-> TRUE]}
  IN  given \cup {[key \in DOMAIN g \cup DOMAIN shown |->
                     IF key \in DOMAIN g THEN g[key] ELSE shown[key]] :
                    g \in {[key \in keys |-> FALSE] : keys \in {{}, flags}}}

\* getNavigationMetric(): null without a navigation entry, else its timings.
ReportNavigations == {<<>>, <<[ttfb |-> 1, pageLoadTime |-> MaxNow]>>}

\* Stylesheets, each later one larger than those already loaded.
ReportResourceEntry(loaded) == [SessionResource EXCEPT !.transferSize = 4 * (loaded + 1)]

\* A 60 ms frame, and an entry that carries no duration.
ReportFrameEntries == {SessionFrame, [SessionFrame EXCEPT !.duration = Null]}

NextReport ==
  \/ GetPerformanceMonitor(SessionKey)
     /\ UNCHANGED <<apiVars, queryVars, vitalsVars, resVars, loafVars, selection, collectorObs, session, cleared, reads, fetchCall, xhrCall>>
     /\ report' = NoReport
  \/ PMInitialize(SessionKey, "long-animation-frame", MaxSetups)
     /\ UNCHANGED <<queryVars, pmVars, selection, collectorObs, session, cleared, reads, fetchCall, xhrCall>>
     /\ report' = NoReport
  \/ PMInitializeQueryClient(SessionKey, <<>>)
     /\ UNCHANGED <<apiVars, vitalsVars, resVars, loafVars, nextOid, returned, selection,
                    resCallbacks, loafCallbacks, notified, analytics, session, cleared, reads, fetchCall, xhrCall>>
     /\ report' = NoReport
  \/ VitalsMetric("LCP", MaxInstant, 1, MaxSessionLog)
     /\ UNCHANGED <<resVars, loafVars, pmVars, selection, collectorObs, session, cleared, reads, fetchCall, xhrCall>>
     /\ report' = NoReport
  \/ /\ Len(apiCalls) < MaxSessionLog
     /\ RecordAPICall(1, MaxDur)
     /\ UNCHANGED <<queryVars, vitalsVars, resVars, loafVars, pmVars, selection, collectorObs, session, cleared, reads, fetchCall, xhrCall>>
     /\ report' = NoReport
  \/ HandleResourceEntry(ReportResourceEntry(Len(resources)), MaxReportLog)
       /\ UNCHANGED <<apiVars, queryVars, vitalsVars, loafVars, pmVars, selection, collectorObs, session, cleared, reads, fetchCall, xhrCall>>
     /\ report' = NoReport
  \/ \E entry \in ReportFrameEntries :
       HandleFrameEntry(entry, MaxSessionLog)
       /\ UNCHANGED <<apiVars, queryVars, vitalsVars, resVars, pmVars, selection, collectorObs, session, cleared, reads, fetchCall, xhrCall>>
     /\ report' = NoReport
  \/ MarkHydrationStart(SessionKey, 1)
     /\ UNCHANGED <<apiVars, queryVars, vitalsVars, resVars, loafVars, nextOid, returned,
                    selection, collectorObs, session, cleared, reads, fetchCall, xhrCall>>
     /\ report' = NoReport
  \/ MarkHydrationEnd(SessionKey, 2, 1)
     /\ UNCHANGED <<apiVars, queryVars, vitalsVars, resVars, loafVars, nextOid, returned,
                    selection, collectorObs, session, cleared, reads, fetchCall, xhrCall>>
     /\ report' = NoReport
  \/ \E navigation \in ReportNavigations, options \in ReportOptionSets :
       GenerateReport(SessionKey, navigation, options, SessionNow)
       /\ UNCHANGED <<apiVars, queryVars, vitalsVars, resVars, loafVars, pmVars, selection,
                      collectorObs, session, cleared, reads, fetchCall, xhrCall>>

SpecReport == Init /\ [][NextReport]_vars

\* ------------------------------------------- collectors cleared one by one
\* The five collectors fill their logs, and the application clears them
\* one at a time.  `cleared` holds the call for the step in which it is made.

NextClear ==
  \/ GetPerformanceMonitor(SessionKey)
     /\ UNCHANGED <<apiVars, queryVars, vitalsVars, resVars, loafVars, selection,
                    collectorObs, session, report, reads, fetchCall, xhrCall>>
     /\ cleared' = NoClear
  \/ PMInitialize(SessionKey, "long-animation-frame", MaxSetups)
     /\ UNCHANGED <<queryVars, pmVars, selection, collectorObs, session, report, reads, fetchCall, xhrCall>>
     /\ cleared' = NoClear
  \/ \E cached \in CachedQueries :
       PMInitializeQueryClient(SessionKey, cached)
       /\ UNCHANGED <<apiVars, vitalsVars, resVars, loafVars, nextOid, returned, selection,
                      resCallbacks, loafCallbacks, notified, analytics, session, report, reads, fetchCall, xhrCall>>
       /\ cleared' = NoClear
  \/ \E name \in {"LCP", "CLS"} :
       VitalsMetric(name, MaxInstant, 1, MaxClearLog)
       /\ UNCHANGED <<resVars, loafVars, pmVars, selection, collectorObs, session, report, reads, fetchCall, xhrCall>>
       /\ cleared' = NoClear
  \/ /\ Len(apiCalls) < MaxClearLog
     /\ RecordAPICall(1, MaxDur)
     /\ UNCHANGED <<queryVars, vitalsVars, resVars, loafVars, pmVars, selection,
                    collectorObs, session, report, reads, fetchCall, xhrCall>>
     /\ cleared' = NoClear
  \/ /\ Len(queryMetrics) < MaxClearLog
     /\ HandleQueryEvent(PairEvent(1, MaxDur, 1))
     /\ UNCHANGED <<apiVars, vitalsVars, resVars, loafVars, pmVars, selection,
                    collectorObs, session, report, reads, fetchCall, xhrCall>>
     /\ cleared' = NoClear
  \/ HandleResourceEntry(SessionResource, MaxClearLog)
     /\ UNCHANGED <<apiVars, queryVars, vitalsVars, loafVars, pmVars, selection,
                    collectorObs, session, report, reads, fetchCall, xhrCall>>
     /\ cleared' = NoClear
  \/ HandleFrameEntry(SessionFrame, MaxClearLog)
     /\ UNCHANGED <<apiVars, queryVars, vitalsVars, resVars, pmVars, selection,
                    collectorObs, session, report, reads, fetchCall, xhrCall>>
     /\ cleared' = NoClear
  \/ \E collector \in Collectors :
       ClearCollector(collector)
       /\ UNCHANGED <<pmVars, selection, collectorObs, session, report, reads, fetchCall, xhrCall>>

SpecClear == Init /\ [][NextClear]_vars

\* ------------------------------------------------ a session being read
\* The application reads the aggregates, any number of times, between the
\* events of a session.

NextRead ==
  \/ GetPerformanceMonitor(SessionKey)
     /\ UNCHANGED <<apiVars, queryVars, vitalsVars, resVars, loafVars, selection,
                    collectorObs, session, report, cleared, fetchCall, xhrCall>>
     /\ reads' = <<>>
  \/ PMInitialize(SessionKey, "long-animation-frame", MaxSetups)
     /\ UNCHANGED <<queryVars, pmVars, selection, collectorObs, session, report, cleared,
                    fetchCall, xhrCall>>
     /\ reads' = <<>>
  \/ \E cached \in CachedQueries :
       PMInitializeQueryClient(SessionKey, cached)
       /\ UNCHANGED <<apiVars, vitalsVars, resVars, loafVars, nextOid, returned, selection,
                      resCallbacks, loafCallbacks, notified, analytics, session, report,
                      cleared, fetchCall, xhrCall>>
       /\ reads' = <<>>
  \/ VitalsMetric("LCP", MaxInstant, 1, MaxSessionLog)
     /\ UNCHANGED <<resVars, loafVars, pmVars, selection, collectorObs, session, report,
                    cleared, fetchCall, xhrCall>>
     /\ reads' = <<>>
  \/ \E d \in 1..MaxDur :
       /\ Len(apiCalls) < MaxApiLog
       /\ RecordAPICall(1, d)
       /\ UNCHANGED <<queryVars, vitalsVars, resVars, loafVars, pmVars, selection,
                      collectorObs, session, report, cleared, fetchCall, xhrCall>>
       /\ reads' = <<>>
  \/ \E d \in 1..MaxDur :
       /\ HandleQueryEvent(PairEvent(1, d, 1))
       /\ UNCHANGED <<apiVars, vitalsVars, resVars, loafVars, pmVars, selection,
                      collectorObs, session, report, cleared, fetchCall, xhrCall>>
       /\ reads' = <<>>
  \/ \E blocking \in {"blocking", "non-blocking"} :
       /\ HandleResourceEntry([SessionResource EXCEPT !.renderBlockingStatus = blocking],
                              MaxResourceLog)
       /\ UNCHANGED <<apiVars, queryVars, vitalsVars, loafVars, pmVars, selection,
                      collectorObs, session, report, cleared, fetchCall, xhrCall>>
       /\ reads' = <<>>
  \/ PMClear(SessionKey)
     /\ UNCHANGED <<nextOid, returned, selection, collectorObs, session, report, cleared,
                    fetchCall, xhrCall>>
     /\ reads' = <<>>
  \/ ReadPerformanceSession(SessionKey, SessionNow)
     /\ UNCHANGED <<selection, collectorObs, session, report, cleared, fetchCall, xhrCall>>
  \/ ReadQueryCacheStats(SessionNow)
     /\ UNCHANGED <<selection, collectorObs, session, report, cleared, fetchCall, xhrCall>>
  \/ ReadLCPBlockingCalls
     /\ UNCHANGED <<selection, collectorObs, session, report, cleared, fetchCall, xhrCall>>
  \/ ReadAverageLatency
     /\ UNCHANGED <<selection, collectorObs, session, report, cleared, fetchCall, xhrCall>>
  \/ \E count \in {1, TopKDefault} :
       ReadSlowestCalls(count)
       /\ UNCHANGED <<selection, collectorObs, session, report, cleared, fetchCall, xhrCall>>

SpecRead == Init /\ [][NextRead]_vars

\* ------------------------------------------------ hydration on the clocks
\* A page load whose events carry their instants.  performance.now() counts
\* from the time origin of the page; Date.now() counts from the epoch, so at
\* the instant performance.now() = t it reads TimeOrigin + t.

DateNow(t) == TimeOrigin + t

\* The instant, on the performance clock, at which Date.now() read `stamp`.
PerfInstant(stamp) == stamp - TimeOrigin

\* The latest instant the state of monitor k remembers; time does not run
\* backwards.
HydrationClock(k) ==
  LET marks == {PerfInstant(vitals[i].timestamp) : i \in 1..Len(vitals)}
                 \cup {OrZero(instances[k].hydrationStartTime)}
                 \cup {instances[k].hydrationMetric[i].endTime :
                         i \in 1..Len(instances[k].hydrationMetric)}
  IN  CHOOSE m \in marks : \A n \in marks : n <= m

NextHydration ==
  \/ GetPerformanceMonitor(SessionKey)
     /\ UNCHANGED <<apiVars, queryVars, vitalsVars, resVars, loafVars, selection, obsVars>>
  \/ PMInitialize(SessionKey, "long-animation-frame", MaxSetups)
     /\ UNCHANGED <<queryVars, pmVars, selection, obsVars>>
  \/ \E t \in 1..MaxHydrationInstant, value \in 1..2 :
       /\ SessionKey \in DOMAIN instances
       /\ t >= HydrationClock(SessionKey)
       /\ VitalsMetric("LCP", value, DateNow(t), MaxHydrationLog)
       /\ UNCHANGED <<resVars, loafVars, pmVars, selection, obsVars>>
  \/ \E t \in 1..MaxHydrationInstant :
       /\ SessionKey \in DOMAIN instances
       /\ t >= HydrationClock(SessionKey)
       /\ MarkHydrationStart(SessionKey, t)
       /\ UNCHANGED <<apiVars, queryVars, vitalsVars, resVars, loafVars, nextOid, returned,
                      selection, obsVars>>
  \/ \E t \in 1..MaxHydrationInstant, count \in {Null, 1} :
       /\ SessionKey \in DOMAIN instances
       /\ t >= HydrationClock(SessionKey)
       /\ MarkHydrationEnd(SessionKey, t, count)
       /\ UNCHANGED <<apiVars, queryVars, vitalsVars, resVars, loafVars, nextOid, returned,
                      selection, obsVars>>
  \/ PMClear(SessionKey) /\ UNCHANGED <<nextOid, returned, selection, obsVars>>

SpecHydration == Init /\ [][NextHydration]_vars

\* ------------------------------------------------ the application fetching
\* The application calls window.fetch, one call at a time, while paint
\* instants arrive and the log is cleared.

NextFetch ==
  \/ /\ ApiInitialize
     /\ UNCHANGED <<queryVars, vitalsVars, resVars, loafVars, pmVars, selection,
                    collectorObs, session, report, cleared, reads, fetchCall, xhrCall>>
  \/ \E now \in 1..MaxFetchInstant :
       /\ Len(apiCalls) < MaxApiLog
       /\ WrappedFetch(now)
       /\ UNCHANGED <<queryVars, vitalsVars, resVars, loafVars, pmVars, selection,
                      collectorObs, session, report, cleared, reads, xhrCall>>
  \/ \E status \in {200, 404}, body \in {"ends", "fails", "unending"}, size \in {0, 3},
        now \in 1..MaxFetchInstant :
       /\ OriginalFulfils(status, body, size, now)
       /\ UNCHANGED <<queryVars, vitalsVars, resVars, loafVars, pmVars, selection,
                      collectorObs, session, report, cleared, reads, xhrCall>>
  \/ /\ BodySettles
     /\ UNCHANGED <<queryVars, vitalsVars, resVars, loafVars, pmVars, selection,
                    collectorObs, session, report, cleared, reads, xhrCall>>
  \/ \E now \in 1..MaxFetchInstant :
       /\ OriginalRejects(now)
       /\ UNCHANGED <<queryVars, vitalsVars, resVars, loafVars, pmVars, selection,
                      collectorObs, session, report, cleared, reads, xhrCall>>
  \/ /\ ApiSetLCPTime(MaxFetchInstant)
     /\ UNCHANGED <<queryVars, vitalsVars, resVars, loafVars, pmVars, selection,
                    collectorObs, session, report, cleared, reads, fetchCall, xhrCall>>
  \/ /\ ApiClear
     /\ ClearPendingRequests
     /\ UNCHANGED <<queryVars, vitalsVars, resVars, loafVars, pmVars, selection,
                    collectorObs, session, report, cleared, reads, xhrCall>>

SpecFetch == Init /\ [][NextFetch]_vars

\* Promise reactions always run, and a body that ends or fails does so: the
\* rest of the .then handler is not put off for ever.  (Nothing makes the
\* network answer, so the original fetch itself may stay pending.)
SpecFetchFair ==
  SpecFetch /\ WF_vars(BodySettles
                       /\ UNCHANGED <<queryVars, vitalsVars, resVars, loafVars, pmVars,
                                      selection, collectorObs, session, report, cleared,
                                      reads, xhrCall>>)

\* ------------------------------------------------ the query-cache log
\* A cache that holds queries when the monitor subscribes and then reports
\* updates of queries that are idle or fetching, with or without data, with
\* or without an error, under a staleTime of 0 or 1.

StatsEvents ==
  {[type |-> "updated", queryKey |-> k, fetchStartTime |-> 1, now |-> n,
    dataUpdatedAt |-> u, status |-> st, fetchStatus |-> fst, staleTime |-> stale] :
     k \in QueryKeys, n \in 2..MaxNow, u \in 0..1, st \in {"success", "error"},
     fst \in {"idle", "fetching"}, stale \in 0..1}

StatsFrame ==
  UNCHANGED <<apiVars, vitalsVars, resVars, loafVars, pmVars, selection, obsVars>>

NextStats ==
  \/ \E c \in CachedQueries : QueryInitialize(c) /\ StatsFrame
  \/ \E ev \in StatsEvents : HandleQueryEvent(ev) /\ StatsFrame
  \/ QueryClear /\ StatsFrame

SpecStats == Init /\ [][NextStats]_vars

\* ------------------------------------------------ the vitals log
\* The web-vitals library reports revisions of three metrics, in any order.

NextVitals ==
  \/ /\ VitalsInitialize
     /\ UNCHANGED <<apiVars, queryVars, resVars, loafVars, pmVars, selection, obsVars>>
  \/ \E name \in {"LCP", "CLS", "INP"}, value \in 1..2 :
       /\ VitalsMetric(name, value, DateNow(1), MaxVitalsLog)
       /\ UNCHANGED <<resVars, loafVars, pmVars, selection, obsVars>>
  \/ /\ VitalsClear
     /\ UNCHANGED <<apiVars, queryVars, resVars, loafVars, pmVars, selection, obsVars>>

SpecVitals == Init /\ [][NextVitals]_vars

\* ------------------------------------------------ records after a clear
\* Both monitors are initialized and observed; requests and cache events
\* arrive, instants are handed to both monitors, and either log is cleared.
\* `cleared` remembers the last clear() until the next instant is observed.

KeepsFrame == UNCHANGED <<vitalsVars, resVars, loafVars, pmVars, selection, resCallbacks,
                          loafCallbacks, notified, analytics, session, report, reads,
                          fetchCall, xhrCall>>

NextKeeps ==
  \/ PairInitialize /\ UNCHANGED <<queryCallbacks, cleared>> /\ KeepsFrame
  \/ /\ OnAPICall("ok")
     /\ Len(queryCallbacks) < MaxObservers
     /\ OnQuery("ok")
     /\ UNCHANGED <<queryVars, cleared>> /\ KeepsFrame
  \/ /\ RecordAPICall(1, MaxDur)
     /\ UNCHANGED <<queryVars, queryCallbacks, cleared>> /\ KeepsFrame
  \/ /\ HandleQueryEvent(PairEvent(1, MaxDur, 1))
     /\ UNCHANGED <<apiVars, queryCallbacks, cleared>> /\ KeepsFrame
  \/ \E t \in 1..MaxInstant :
       /\ PairSetLCPTime(t)
       /\ cleared' = NoClear
       /\ UNCHANGED queryCallbacks /\ KeepsFrame
  \/ \E t \in 1..MaxInstant :
       /\ PairRecordINPEvent(t)
       /\ cleared' = NoClear
       /\ UNCHANGED queryCallbacks /\ KeepsFrame
  \/ /\ ApiClear
     /\ cleared' = [collector |-> "apiCalls", before |-> Logs]
     /\ UNCHANGED <<queryVars, queryCallbacks>> /\ KeepsFrame
  \/ /\ QueryClear
     /\ cleared' = [collector |-> "queryMetrics", before |-> Logs]
     /\ UNCHANGED <<apiVars, queryCallbacks>> /\ KeepsFrame

SpecKeeps == Init /\ [][NextKeeps]_vars

\* ------------------------------------------------ requests in flight
\* A fetch and an XMLHttpRequest may be in flight together; the log is
\* cleared at any moment.  `cleared` remembers the last clear() and the
\* requests that were in flight then, until the next request starts.

FetchInFlight == fetchCall.stage \in {"pending", "reading"}

XhrInFlight == xhrCall.stage = "sent"

RequestsInFlight ==
  (IF FetchInFlight THEN 1 ELSE 0) + (IF XhrInFlight THEN 1 ELSE 0)

InFlightFrame ==
  UNCHANGED <<queryVars, vitalsVars, resVars, loafVars, pmVars, selection, collectorObs,
              session, report, reads>>

NextInFlight ==
  \/ ApiInitialize /\ UNCHANGED <<cleared, fetchCall, xhrCall>> /\ InFlightFrame
  \/ \E now \in 1..MaxFetchInstant :
       /\ Len(apiCalls) + RequestsInFlight < MaxApiLog
       /\ WrappedFetch(now)
       /\ cleared' = NoClear
       /\ UNCHANGED xhrCall /\ InFlightFrame
  \/ \E body \in {"ends", "fails"}, now \in 1..MaxFetchInstant :
       /\ OriginalFulfils(200, body, 3, now)
       /\ UNCHANGED <<cleared, xhrCall>> /\ InFlightFrame
  \/ BodySettles /\ UNCHANGED <<cleared, xhrCall>> /\ InFlightFrame
  \/ \E now \in 1..MaxFetchInstant :
       OriginalRejects(now) /\ UNCHANGED <<cleared, xhrCall>> /\ InFlightFrame
  \/ \E now \in 1..MaxFetchInstant :
       /\ Len(apiCalls) + RequestsInFlight < MaxApiLog
       /\ XhrSend(now)
       /\ cleared' = NoClear
       /\ UNCHANGED fetchCall /\ InFlightFrame
  \/ \E now \in 1..MaxFetchInstant :
       XhrLoadEnd(now) /\ UNCHANGED <<cleared, fetchCall>> /\ InFlightFrame
  \/ /\ ApiClear
     /\ ClearPendingRequests
     /\ cleared' = [collector |-> "apiCalls", before |-> Logs,
                    pendingRequests |->
                      [fetch |-> IF FetchInFlight THEN fetchCall.startTime ELSE Null,
                       xhr   |-> IF XhrInFlight THEN xhrCall.startTime ELSE Null]]
     /\ UNCHANGED xhrCall /\ InFlightFrame

SpecInFlight == Init /\ [][NextInFlight]_vars

\* ------------------------------------------------ analytics through the wrapper
\* The application sends the session to an endpoint, before or after the API
\* monitor has patched window.fetch; the endpoint answers 200 or 500, with a
\* body that can or cannot be read, or the network fails.

SendFrame ==
  UNCHANGED <<queryCallbacks, resCallbacks, loafCallbacks, notified, session, report,
              cleared, reads, xhrCall>>

NextSend ==
  \/ GetPerformanceMonitor(SessionKey)
     /\ UNCHANGED <<apiVars, queryVars, vitalsVars, resVars, loafVars, selection, obsVars>>
  \/ PMInitialize(SessionKey, "long-animation-frame", MaxSetups)
     /\ UNCHANGED <<queryVars, pmVars, selection, obsVars>>
  \/ VitalsMetric("LCP", MaxInstant, DateNow(1), MaxSessionLog)
     /\ UNCHANGED <<resVars, loafVars, pmVars, selection, obsVars>>
  \/ HandleFrameEntry(SessionFrame, MaxSessionLog)
     /\ UNCHANGED <<apiVars, queryVars, vitalsVars, resVars, pmVars, selection, obsVars>>
  \/ \E now \in 1..MaxFetchInstant :
       /\ SendToAnalytics(SessionKey, now)
       /\ IF apiInitialized
            THEN Len(apiCalls) < MaxApiLog /\ WrappedFetch(now)
            ELSE UNCHANGED <<apiVars, fetchCall>>
       /\ UNCHANGED <<queryVars, vitalsVars, resVars, loafVars, pmVars, selection>>
       /\ SendFrame
  \/ \E status \in {200, 500}, body \in {"ends", "fails"}, now \in 1..MaxFetchInstant :
       /\ analytics.status = "pending" /\ analytics.intercepted
       /\ OriginalFulfils(status, body, 3, now)
       /\ UNCHANGED <<queryVars, vitalsVars, resVars, loafVars, pmVars, selection, analytics>>
       /\ SendFrame
  \/ /\ analytics.intercepted
     /\ BodySettles
     /\ SendContinues("fulfilled")
     /\ UNCHANGED <<queryVars, vitalsVars, resVars, loafVars, pmVars, selection>>
     /\ SendFrame
  \/ \E now \in 1..MaxFetchInstant :
       /\ analytics.intercepted
       /\ OriginalRejects(now)
       /\ SendContinues("rejected")
       /\ UNCHANGED <<queryVars, vitalsVars, resVars, loafVars, pmVars, selection>>
       /\ SendFrame
  \/ \E outcome \in {"fulfilled", "rejected"}, now \in 1..MaxFetchInstant :
       /\ ~analytics.intercepted
       /\ now >= analytics.startTime
       /\ FetchSettles(outcome, now)
       /\ UNCHANGED <<queryVars, vitalsVars, resVars, loafVars, pmVars, selection, fetchCall>>
       /\ SendFrame
  \/ /\ ApiClear
     /\ ClearPendingRequests
     /\ UNCHANGED <<queryVars, vitalsVars, resVars, loafVars, pmVars, selection, analytics>>
     /\ SendFrame

SpecSend == Init /\ [][NextSend]_vars

\* ------------------------------------------------ instants delivered again
\* initialize() is called once or twice on the monitor (each call registers
\* a correlation observer), so a metric is delivered once or twice to the
\* correlating monitors; the application also calls setLCPTime and
\* recordINPEvent on them itself.

AgainFrame == UNCHANGED <<resVars, loafVars, pmVars, selection, obsVars>>

NextAgain ==
  \/ GetPerformanceMonitor(SessionKey)
     /\ UNCHANGED <<apiVars, queryVars, vitalsVars, resVars, loafVars, selection, obsVars>>
  \/ PMInitialize(SessionKey, "long-animation-frame", MaxDeliveries)
     /\ UNCHANGED <<queryVars, pmVars, selection, obsVars>>
  \/ PMInitializeQueryClient(SessionKey, <<>>)
     /\ UNCHANGED <<apiVars, vitalsVars, resVars, loafVars, nextOid, returned, selection,
                    resCallbacks, loafCallbacks, notified, analytics, callerVars>>
  \/ \E name \in {"LCP", "INP"}, value \in 1..MaxInstant :
       VitalsMetric(name, value, DateNow(1), MaxDeliveries) /\ AgainFrame
  \/ RecordAPICall(1, MaxDur) /\ UNCHANGED <<queryVars, vitalsVars>> /\ AgainFrame
  \/ HandleQueryEvent(PairEvent(1, MaxDur, 1))
     /\ UNCHANGED <<apiVars, vitalsVars>> /\ AgainFrame
  \/ \E t \in 1..MaxInstant :
       ApiSetLCPTime(t) /\ UNCHANGED <<queryVars, vitalsVars>> /\ AgainFrame
  \/ \E t \in 1..MaxInstant :
       ApiRecordINPEvent(t) /\ UNCHANGED <<queryVars, vitalsVars>> /\ AgainFrame
  \/ \E t \in 1..MaxInstant :
       QuerySetLCPTime(t) /\ UNCHANGED <<apiVars, vitalsVars>> /\ AgainFrame
  \/ \E t \in 1..MaxInstant :
       QueryRecordINPEvent(t) /\ UNCHANGED <<apiVars, vitalsVars>> /\ AgainFrame
  \/ PMClear(SessionKey) /\ UNCHANGED <<nextOid, returned, selection, obsVars>>

SpecAgain == Init /\ [][NextAgain]_vars

\* -------------------------------------------------------------- properties

\* Instant t strictly inside (start, start + duration).
StrictlyInside(t, startTime, duration) == startTime < t /\ t < startTime + duration

\* C1: in every step, whatever the operation, a record that stays in a log
\* (API-call log or query-cache log) and has blockedLCP true keeps it true,
\* and one that has blockedINP true keeps it true.  A log only appends at its
\* end, rewrites records in place, or is emptied, so a record that is still
\* in the log is at the position it had.
C1_FlagsNeverReset ==
  [][/\ \A i \in 1..Len(apiCalls) :
          i <= Len(apiCalls') =>
            /\ apiCalls[i].blockedLCP => apiCalls'[i].blockedLCP
            /\ apiCalls[i].blockedINP => apiCalls'[i].blockedINP
     /\ \A i \in 1..Len(queryMetrics) :
          i <= Len(queryMetrics') =>
            /\ queryMetrics[i].blockedLCP => queryMetrics'[i].blockedLCP
            /\ queryMetrics[i].blockedINP => queryMetrics'[i].blockedINP
    ]_vars

\* C1 witness: an API-call record and a query-cache record are both flagged
\* blockedLCP although the paint instant stored now lies outside the interval
\* each pass tests, i.e. a later pass with another instant left the flags set.
C1_Witness ==
  /\ \E i \in 1..Len(apiCalls) :
       /\ apiCalls[i].blockedLCP
       /\ apiLcpTime # Null
       /\ ~StrictlyInside(apiLcpTime, apiCalls[i].startTime, apiCalls[i].duration)
  /\ \E i \in 1..Len(queryMetrics) :
       /\ queryMetrics[i].blockedLCP
       /\ queryLcpTime # Null
       /\ queryMetrics[i].fetchDuration # Null
       /\ ~StrictlyInside(queryLcpTime, queryStartUsed[i], queryMetrics[i].fetchDuration)
       /\ ~StrictlyInside(queryLcpTime,
                          queryMetrics[i].dataUpdatedAt - queryMetrics[i].fetchDuration,
                          queryMetrics[i].fetchDuration)

\* C2: with no clear(), in every state (hence after the last call of any
\* interleaving) every API-call record whose interval strictly contains the
\* stored paint instant is flagged blockedLCP and every one whose interval
\* strictly contains a stored interaction instant is flagged blockedINP; the
\* same for every query-cache record, its interval being the fetch start
\* used when it was created and its fetchDuration.
C2_OverlapIsFlagged ==
  /\ \A i \in 1..Len(apiCalls) :
       LET c == apiCalls[i]
       IN  /\ (apiLcpTime # Null /\ StrictlyInside(apiLcpTime, c.startTime, c.duration))
                => c.blockedLCP
           /\ (\E t \in apiInpEvents : StrictlyInside(t, c.startTime, c.duration))
                => c.blockedINP
  /\ \A i \in 1..Len(queryMetrics) :
       LET q == queryMetrics[i]
       IN  (queryStartUsed[i] # Null /\ q.fetchDuration # Null) =>
             /\ (queryLcpTime # Null
                  /\ StrictlyInside(queryLcpTime, queryStartUsed[i], q.fetchDuration))
                  => q.blockedLCP
             /\ (\E t \in queryInpEvents :
                    StrictlyInside(t, queryStartUsed[i], q.fetchDuration))
                  => q.blockedINP

\* C7: a clear() on the monitor of key k1 leaves the snapshot (logs and
\* summary) of the monitor of every other key k2 as it was.
C7_ClearLeavesOtherKeys ==
  [][\A k1 \in DOMAIN instances : \A k2 \in DOMAIN instances :
       (k1 # k2 /\ PMClear(k1)) =>
         PerformanceSession(k2, SessionNow)' = PerformanceSession(k2, SessionNow)
    ]_vars

\* C8: a lookup of a key not yet in the registry returns a new object, a
\* lookup of a key already there returns the object stored for it; no step
\* removes a key or stores another object under it; different keys hold
\* different objects.
C8_RegistryStable ==
  [][/\ \A k \in DOMAIN instances :
          /\ k \in DOMAIN instances'
          /\ instances'[k].oid = instances[k].oid
     /\ \A k \in Frameworks :
          GetPerformanceMonitor(k) =>
            /\ k \in DOMAIN instances'
            /\ returned' = instances'[k].oid
            /\ k \notin DOMAIN instances =>
                 \A j \in DOMAIN instances : instances[j].oid # returned'
     /\ \A k1 \in DOMAIN instances' : \A k2 \in DOMAIN instances' :
          k1 # k2 => instances'[k1].oid # instances'[k2].oid
    ]_vars

\* C8 witness: all three keys hold a monitor, the collectors were
\* initialized and then cleared after a paint metric had arrived, and the
\* last lookup returned the first object ever created, i.e. it was a
\* repeated lookup.
C8_Witness ==
  /\ DOMAIN instances = Frameworks
  /\ nextOid = 4
  /\ returned = 1
  /\ apiInitialized
  /\ apiLcpTime # Null
  /\ vitals = <<>>

\* The statistics of an empty query cache.
EmptyQueryCacheStats ==
  [totalQueries |-> 0, activeQueries |-> 0, staleQueries |-> 0, erroredQueries |-> 0,
   averageFetchDuration |-> Zero, cacheHitRate |-> Zero,
   slowestQueries |-> <<>>, mostFrequentQueries |-> <<>>]

\* The snapshot with every log empty, no hydration and every statistic at
\* its empty-state value; queryCache is absent (<<>>) or holds the given stats.
EmptySession(framework, queryCache) ==
  [framework  |-> framework,
   webVitals  |-> <<>>,
   hydration  |-> <<>>,
   resources  |-> <<>>,
   longFrames |-> <<>>,
   apiCalls   |-> <<>>,
   queryCache |-> queryCache,
   summary    |->
     [totalResources          |-> 0,
      blockingResources       |-> 0,
      totalTransferSize       |-> 0,
      averageCompressionRatio |-> Zero,
      apiCallCount            |-> 0,
      averageApiLatency       |-> Zero,
      longFrameCount          |-> 0,
      totalBlockingTime       |-> 0,
      queryCount              |-> [i \in 1..Len(queryCache) |-> 0],
      queryCacheHitRate       |-> [i \in 1..Len(queryCache) |-> Zero],
      averageQueryDuration    |-> [i \in 1..Len(queryCache) |-> Zero]]]

\* The first lookup of a key on an untouched page yields the snapshot of a
\* freshly constructed session: EmptySession with no queryCache.
FreshSnapshotIsEmpty ==
  \A k \in Frameworks :
    (GetPerformanceMonitor(k) /\ k \notin DOMAIN instances /\ ~apiInitialized
       /\ ~queryInitialized)
      => PerformanceSession(k, SessionNow)' = EmptySession(k, <<>>)

\* C9 as stated: after clear() the snapshot equals that of a freshly
\* constructed session, queryCache and the summary's query statistics
\* included.
C9_ClearGivesFreshSnapshot ==
  [][/\ FreshSnapshotIsEmpty
     /\ \A k \in DOMAIN instances :
          PMClear(k) => PerformanceSession(k, SessionNow)' = EmptySession(k, <<>>)
    ]_vars

\* C9 amended: after clear() every log of the snapshot is empty, hydration
\* is absent and every statistic has its empty-state value; queryCache and
\* the summary's query statistics are absent, as in a freshly constructed
\* session, exactly when initializeQueryClient was never called on the
\* monitor; otherwise queryCache is present with all-zero counts and rates
\* and empty top-k lists, and the summary's query statistics are 0.
C9_ClearGivesEmptySnapshot ==
  [][/\ FreshSnapshotIsEmpty
     /\ \A k \in DOMAIN instances :
          PMClear(k) =>
            PerformanceSession(k, SessionNow)' =
              EmptySession(k, IF instances[k].queryClientInitialized
                                THEN <<EmptyQueryCacheStats>> ELSE <<>>)
    ]_vars

\* C9 witness: a monitor with its query client initialized and hydration
\* recorded was cleared after requests, cache events, resources and frames
\* had been logged: the collectors are initialized, instants are stored,
\* and every log is empty again.
C9_Witness ==
  /\ SessionKey \in DOMAIN instances
  /\ instances[SessionKey].queryClientInitialized
  /\ instances[SessionKey].hydrationStartTime = Null
  /\ apiLcpTime # Null /\ queryLcpTime # Null
  /\ apiInpEvents # {} /\ queryInpEvents # {}
  /\ resInitialized /\ loafObserver # "none"
  /\ apiCalls = <<>> /\ queryMetrics = <<>> /\ resources = <<>> /\ frames = <<>>
  /\ vitals = <<>>
  /\ Len(apiNotified) = 0

\* `at` lists, best first, the first min(count, n) of the n log positions
\* in `members` when these are ordered by descending key, positions with
\* equal keys in log order.
StableTopK(at, keys, members, count) ==
  LET Before(a, b) == keys[a] > keys[b] \/ (keys[a] = keys[b] /\ a < b)
      n == Cardinality(members)
  IN  /\ Len(at) = IF count < n THEN count ELSE n
      /\ \A i \in 1..Len(at) : at[i] \in members
      /\ \A i \in 1..Len(at) : \A j \in 1..Len(at) : i < j => Before(at[i], at[j])
      /\ \A x \in members :
           (\A i \in 1..Len(at) : at[i] # x) => \A i \in 1..Len(at) : Before(at[i], x)

\* What the three getters with a count parameter return is the stable
\* descending top-count of the whole log, by duration / transferSize.
CountedGettersTopK ==
  \A count \in Counts :
    /\ CallGetSlowestCalls(count) =>
         StableTopK(selection'.at, [i \in 1..Len(apiCalls) |-> apiCalls[i].duration],
                    1..Len(apiCalls), count)
    /\ CallGetLargestResources(count) =>
         StableTopK(selection'.at,
                    [i \in 1..Len(resources) |-> resources[i].transferSize],
                    1..Len(resources), count)
    /\ CallGetSlowestResources(count) =>
         StableTopK(selection'.at, [i \in 1..Len(resources) |-> resources[i].duration],
                    1..Len(resources), count)

\* mostFrequentQueries is the stable descending top-10, by count, of the
\* per-key execution counters (kept in order of each key's first event).
MostFrequentTopK ==
  CallGetQueryCacheStats =>
    StableTopK(selection'.also,
               [i \in 1..Len(queryExecutions) |-> queryExecutions[i].count],
               1..Len(queryExecutions), TopKDefault)

\* C10 as stated: every top-k selection is the first min(k, n) elements of
\* its log in stable descending order of the named field, k defaulting to
\* 10; for slowestQueries the log is the query-cache log of n records.
C10_TopKOfLog ==
  [][/\ CountedGettersTopK
     /\ MostFrequentTopK
     /\ CallGetQueryCacheStats =>
          StableTopK(selection'.at,
                     [i \in 1..Len(queryMetrics) |-> OrZero(queryMetrics[i].fetchDuration)],
                     1..Len(queryMetrics), TopKDefault)
    ]_vars

\* C10 amended: getSlowestCalls(k), getLargestResources(k) and
\* getSlowestResources(k), k >= 0 defaulting to 10, return the first
\* min(k, n) elements of the log in stable descending order of the named
\* field.  slowestQueries takes no k: it is the first min(10, m) of the m
\* query-cache records that have a fetchDuration, in stable descending order
\* of fetchDuration; records without one are never listed.
\* mostFrequentQueries takes no k: it is the first min(10, d) of the d
\* per-key execution counters in stable descending order of count.
C10_TopKStable ==
  [][/\ CountedGettersTopK
     /\ MostFrequentTopK
     /\ CallGetQueryCacheStats =>
          StableTopK(selection'.at,
                     [i \in 1..Len(queryMetrics) |-> OrZero(queryMetrics[i].fetchDuration)],
                     {i \in 1..Len(queryMetrics) : queryMetrics[i].fetchDuration # Null},
                     TopKDefault)
    ]_vars

\* C10 witness: getQueryCacheStats() was called on a log of two records of
\* different queries, the first without a fetchDuration: slowestQueries
\* lists only the second, mostFrequentQueries lists both keys, tied, in
\* first-event order.
C10_Witness ==
  /\ selection.op = "getQueryCacheStats"
  /\ Len(queryMetrics) = 2
  /\ queryMetrics[1].fetchDuration = Null
  /\ queryMetrics[2].fetchDuration # Null
  /\ queryMetrics[1].queryKey # queryMetrics[2].queryKey
  /\ selection.at = <<2>>
  /\ selection.also = <<1, 2>>
  /\ selection.at = SlowestQueriesAt
  /\ selection.also = MostFrequentQueriesAt

\* A getter call on `log` with keys `keys` returned the positions `at` and
\* left the log `after` with keys `keysAfter`: the log is as it was, the same
\* call on `after` returns the same records in the same order, and a count
\* above the log size returned every record, in descending order of the key.
RepeatableTopK(log, after, keys, keysAfter, count, at) ==
  LET again == Ranked(keysAfter, count)
  IN  /\ after = log
      /\ again = at
      /\ [i \in 1..Len(again) |-> after[again[i]]] = [i \in 1..Len(at) |-> log[at[i]]]
      /\ count > Len(log) =>
           /\ Len(at) = Len(log)
           /\ {at[i] : i \in 1..Len(at)} = 1..Len(log)
           /\ \A i \in 1..(Len(at) - 1) : keys[at[i]] >= keys[at[i + 1]]

\* C11: a call of getSlowestCalls, getLargestResources or getSlowestResources
\* leaves the log as it was, record for record and in the same order; the
\* same call made again in the state it leaves returns the same records in
\* the same order; and a call with a count above the log size returns every
\* record of the log, in descending order of the field.
C11_TopKIdempotent ==
  [][\A count \in Counts :
       /\ CallGetSlowestCalls(count) =>
            RepeatableTopK(apiCalls, apiCalls',
                           [i \in 1..Len(apiCalls) |-> apiCalls[i].duration],
                           [i \in 1..Len(apiCalls') |-> apiCalls'[i].duration],
                           count, selection'.at)
       /\ CallGetLargestResources(count) =>
            RepeatableTopK(resources, resources',
                           [i \in 1..Len(resources) |-> resources[i].transferSize],
                           [i \in 1..Len(resources') |-> resources'[i].transferSize],
                           count, selection'.at)
       /\ CallGetSlowestResources(count) =>
            RepeatableTopK(resources, resources',
                           [i \in 1..Len(resources) |-> resources[i].duration],
                           [i \in 1..Len(resources') |-> resources'[i].duration],
                           count, selection'.at)
    ]_vars

\* C11 witness: getSlowestCalls() with the default count was called on a log
\* of two calls, the slower one logged last: it returned both, slower first,
\* and the log still has the slower one last.
C11_Witness ==
  /\ selection.op = "getSlowestCalls"
  /\ selection.count = TopKDefault
  /\ Len(apiCalls) = 2
  /\ apiCalls[1].duration < apiCalls[2].duration
  /\ selection.at = <<2, 1>>

\* The product of a set of positive numbers: a common multiple of them.
RECURSIVE CommonMultiple(_)
CommonMultiple(S) ==
  IF S = {} THEN 1 ELSE LET x == CHOOSE y \in S : TRUE IN x * CommonMultiple(S \ {x})

\* q is the mean of decodedBodySize / encodedBodySize over the records
\* `eligible` (each of a positive encodedBodySize), and 0 when there is none.
MeanRatioOver(eligible, q) ==
  LET n == Len(eligible)
      D == CommonMultiple({eligible[i].encodedBodySize : i \in 1..n})
  IN  IF n = 0 THEN q.num = 0 /\ q.den # 0
      ELSE /\ q.den # 0
           /\ q.den * Sum([i \in 1..n |-> eligible[i].decodedBodySize
                                             * (D \div eligible[i].encodedBodySize)])
                = q.num * n * D

\* The <<encodedBodySize, decodedBodySize>> of the records of the log, in order.
BodySizes == [i \in 1..Len(resources) |->
               <<resources[i].encodedBodySize, resources[i].decodedBodySize>>]

\* Sizes 300 and 100 decoded, 100 and 100 encoded give 2; a further record
\* of encoded size 0 leaves 2.
RatioScenario ==
  /\ BodySizes = <<(<<100, 300>>), (<<100, 100>>)>> =>
       AverageCompressionRatio = [num |-> 2, den |-> 1]
  /\ BodySizes = <<(<<100, 300>>), (<<100, 100>>), (<<0, 300>>)>> =>
       AverageCompressionRatio = [num |-> 2, den |-> 1]

\* C12 as stated: getAverageCompressionRatio() is the mean of decodedBodySize
\* / encodedBodySize over exactly the records with encodedBodySize > 0, and 0
\* when there is none; sizes 300/100 and 100/100 give 2, and a further record
\* of encoded size 0 leaves 2.
C12_MeanOverDefined ==
  /\ MeanRatioOver(SelectSeq(resources, LAMBDA r : r.encodedBodySize > 0),
                   AverageCompressionRatio)
  /\ RatioScenario

\* C12 amended: getAverageCompressionRatio() is the mean of decodedBodySize /
\* encodedBodySize over exactly the records with encodedBodySize > 0 and
\* decodedBodySize > 0 (a ratio that is defined and positive); records with
\* encodedBodySize 0 or decodedBodySize 0 are in neither the sum nor the
\* count; with no such record it is 0; the 300/100, 100/100 scenario gives 2
\* with and without a further record of encoded size 0.
C12_MeanOverPositive ==
  /\ MeanRatioOver(SelectSeq(resources,
                     LAMBDA r : r.encodedBodySize > 0 /\ r.decodedBodySize > 0),
                   AverageCompressionRatio)
  /\ RatioScenario

\* C12 witness: the log holds the 300/100 and 100/100 records and then one
\* of encoded size 0, and the average is 2.
C12_Witness ==
  /\ BodySizes = <<(<<100, 300>>), (<<100, 100>>), (<<0, 300>>)>>
  /\ AverageCompressionRatio = [num |-> 2, den |-> 1]

\* C13: getTotalBlockingTime() is the sum, over the records of the log, of
\* max(0, duration - 50): the sum of duration - 50 over the records longer
\* than 50, whatever blockingDuration a record carries and whichever entry
\* type produced it; a log of one 120 ms frame gives 70 and a log of frames
\* of at most 50 ms gives 0.
C13_TotalBlockingTime ==
  LET long == SelectSeq(frames, LAMBDA f : f.duration > 50)
  IN  /\ TotalBlockingTime = Sum([i \in 1..Len(long) |-> long[i].duration - 50])
      /\ (Len(frames) = 1 /\ frames[1].duration = 120) => TotalBlockingTime = 70
      /\ (\A i \in 1..Len(frames) : frames[i].duration <= 50) => TotalBlockingTime = 0

\* C13 witness: a 120 ms frame carrying blockingDuration 10 from the
\* long-animation-frame path and a 120 ms frame carrying the derived 70 from
\* the longtask path are in the log, and the total is 140.
C13_Witness ==
  /\ Len(frames) = 2
  /\ frames[1] = [duration |-> 120, blockingDuration |-> 10, scripts |-> 1]
  /\ frames[2] = [duration |-> 120, blockingDuration |-> 70, scripts |-> 1]
  /\ loafObserver = "longtask"
  /\ TotalBlockingTime = 140

\* C14: in every collector, a handler that runs its observers has appended
\* exactly one record to the log, the earlier records as they were; every
\* observer registered with the collector was called once, in registration
\* order, with that record, the record being in the log at the time of the
\* call; and no exception left the handler, whichever observers throw.
C14_ObserversNotified ==
  [][notified' # notified =>
       LET collector == notified'.collector
           calls     == notified'.calls
           before    == CASE collector = "api"      -> apiCalls
                          [] collector = "vitals"   -> vitals
                          [] collector = "query"    -> queryMetrics
                          [] collector = "resource" -> resources
                          [] collector = "loaf"     -> frames
           after     == CASE collector = "api"      -> apiCalls'
                          [] collector = "vitals"   -> vitals'
                          [] collector = "query"    -> queryMetrics'
                          [] collector = "resource" -> resources'
                          [] collector = "loaf"     -> frames'
           callbacks == CASE collector = "api"      -> apiCallbacks
                          [] collector = "vitals"   -> vitalsCallbacks
                          [] collector = "query"    -> queryCallbacks
                          [] collector = "resource" -> resCallbacks
                          [] collector = "loaf"     -> loafCallbacks
       IN  /\ Len(after) = Len(before) + 1
           /\ SubSeq(after, 1, Len(before)) = before
           /\ ~notified'.escaped
           /\ Len(calls) = Len(callbacks)
           /\ \A i \in 1..Len(calls) :
                /\ calls[i].observer = i
                /\ calls[i].metric = after[Len(after)]
                /\ calls[i].logged
                /\ calls[i].outcome = IF callbacks[i] = "throws" THEN "caught"
                                      ELSE "returned"
    ]_vars

\* C14 witness: a cache event was handled with two observers registered, the
\* first of which throws: both were called with the new record, which is in
\* the log, and no exception left the handler.
C14_Witness ==
  /\ notified.collector = "query"
  /\ queryCallbacks = <<"throws", "ok">>
  /\ Len(queryMetrics) = 1
  /\ Len(notified.calls) = 2
  /\ notified.calls[1].outcome = "caught"
  /\ notified.calls[2].outcome = "returned"
  /\ notified.calls[2].metric = queryMetrics[1]
  /\ ~notified.escaped

\* C15: initialize() on a PerformanceMonitor that has been initialized
\* (its correlation observer is registered), and initializeQueryClient() on
\* one whose query client is initialized, change nothing: the logs, the
\* collectors' subscriptions and interception, and every list of registered
\* observers are after the call what they were before it.
C15_InitializeIsNoOp ==
  [][/\ \A support \in {"long-animation-frame", "longtask"} :
          ( /\ PMInitialize(SessionKey, support, MaxCallbacks + 1)
            /\ \E i \in 1..Len(vitalsCallbacks) : vitalsCallbacks[i] = SessionKey )
          => UNCHANGED <<apiVars, queryVars, vitalsVars, resVars, loafVars, obsVars>>
     /\ ( /\ PMInitializeQueryClient(SessionKey, <<>>)
          /\ instances[SessionKey].queryClientInitialized )
          => UNCHANGED <<apiVars, queryVars, vitalsVars, resVars, loafVars, obsVars>>
    ]_vars

\* C16: a long-frame entry, a resource entry and an "updated" cache event,
\* whichever numeric fields or sub-objects they lack, are each appended as
\* one record whose numeric fields are those of the input with 0 for each
\* missing one, without scripts when the entry has none, and no exception
\* leaves the handler.
C16_RawEventsNormalized ==
  [][/\ \A entry \in RawFrames :
          ObservedFrameEntry(entry) =>
            /\ Len(frames') = Len(frames) + 1
            /\ frames'[Len(frames')].duration = OrZero(entry.duration)
            /\ frames'[Len(frames')].blockingDuration # Null
            /\ frames'[Len(frames')].scripts = OrZero(entry.scripts)
            /\ ~notified'.escaped
     /\ \A entry \in RawResources :
          ObservedResourceEntry(entry) =>
            /\ Len(resources') = Len(resources) + 1
            /\ resources'[Len(resources')].duration = OrZero(entry.duration)
            /\ resources'[Len(resources')].transferSize = OrZero(entry.transferSize)
            /\ resources'[Len(resources')].encodedBodySize = OrZero(entry.encodedBodySize)
            /\ resources'[Len(resources')].decodedBodySize = OrZero(entry.decodedBodySize)
            /\ ~notified'.escaped
     /\ \A raw \in RawQueryEvents :
          RawQueryEvent(raw) =>
            /\ Len(queryMetrics') = Len(queryMetrics) + 1
            /\ queryMetrics'[Len(queryMetrics')].dataUpdatedAt
                 = OrZero(raw.event.dataUpdatedAt)
            /\ queryMetrics'[Len(queryMetrics')].staleTime = OrZero(raw.event.staleTime)
            /\ ~notified'.escaped
    ]_vars

\* C17: disconnect() on the long-frame, resource or query collector leaves
\* the collector's log as it was and the collector detached from the
\* platform; and while a collector is detached (until an initialize() that
\* attaches it again) no step changes its log.
C17_DisconnectedLogFrozen ==
  [][/\ ResourceDisconnect => (resources' = resources /\ ~resInitialized')
     /\ LoafDisconnect => (frames' = frames /\ loafObserver' = "none")
     /\ QueryDisconnect => (queryMetrics' = queryMetrics /\ ~queryInitialized')
     /\ (~resInitialized /\ ~resInitialized') => resources' = resources
     /\ (loafObserver = "none" /\ loafObserver' = "none") => frames' = frames
     /\ (~queryInitialized /\ ~queryInitialized') => queryMetrics' = queryMetrics
    ]_vars

\* C17 witness: each of the three collectors has a record in its log and
\* is detached: it was disconnected after the record arrived.
C17_Witness ==
  /\ Len(resources) = 1 /\ ~resInitialized
  /\ Len(frames) = 1 /\ loafObserver = "none"
  /\ Len(queryMetrics) >= 1 /\ ~queryInitialized

\* C18: the promise sendToAnalytics returns never rejects; once the request
\* it made has settled, fulfilled or rejected, the promise is resolved; and
\* neither the call nor the settling of its request changes or removes a
\* record that was in a log before.
C18_SendNeverRejects ==
  [][/\ analytics'.status # "rejected"
     /\ SendToAnalytics(SessionKey, 0) =>
          /\ analytics'.status = "pending"
          /\ UNCHANGED <<apiCalls, vitals, resources, frames, queryMetrics>>
     /\ \A outcome \in {"fulfilled", "rejected"} :
          FetchSettles(outcome, MaxDur) =>
            /\ analytics'.status = "resolved"
            /\ SubSeq(apiCalls', 1, Len(apiCalls)) = apiCalls
            /\ UNCHANGED <<vitals, resources, frames, queryMetrics>>
    ]_vars

\* C18 witness: a request and a metric were logged, sendToAnalytics was
\* called with fetch intercepted, its request was rejected, and the promise
\* is resolved; the logs hold the two earlier records and the failed request.
C18_Witness ==
  /\ analytics.status = "resolved"
  /\ analytics.fetch = "rejected"
  /\ analytics.intercepted
  /\ Len(vitals) = 1
  /\ Len(apiCalls) = 2
  /\ apiCalls[1].startTime = 1
  /\ apiCalls[2].startTime = 0

\* C19: markHydrationEnd() on a monitor with no hydration start marked
\* leaves the monitor's fields as they were (the call touches nothing else),
\* and the snapshot's hydration is absent then and in every state with no
\* start marked; no start is marked on a monitor
\* just constructed or just cleared, and only markHydrationStart() marks one.
C19_EndWithoutStart ==
  [][LET k == SessionKey
     IN  /\ ( /\ k \in DOMAIN instances
              /\ instances[k].hydrationStartTime = Null
              /\ MarkHydrationEnd(k, 2, 1)
              /\ UNCHANGED <<apiVars, queryVars, vitalsVars, resVars, loafVars,
                             nextOid, returned, selection, obsVars>> )
              => ( /\ UNCHANGED instances
                   /\ PerformanceSession(k, SessionNow)'.hydration = <<>> )
         /\ k \in DOMAIN instances' =>
              (instances'[k].hydrationStartTime = Null
                 => instances'[k].hydrationMetric = <<>>)
         /\ PMClear(k) => instances'[k].hydrationStartTime = Null
         /\ (k \notin DOMAIN instances /\ k \in DOMAIN instances')
              => instances'[k].hydrationStartTime = Null
         /\ ( /\ k \in DOMAIN instances
              /\ instances[k].hydrationStartTime = Null
              /\ instances'[k].hydrationStartTime # Null )
              => MarkHydrationStart(k, 1)
    ]_vars

\* C19 witness: the monitor was cleared after an LCP metric (the empty
\* web-vitals log, the kept LCP instant) and no hydration start has been
\* marked since: markHydrationEnd() finds no start, and no record exists.
C19_Witness ==
  /\ SessionKey \in DOMAIN instances
  /\ instances[SessionKey].hydrationStartTime = Null
  /\ instances[SessionKey].hydrationMetric = <<>>
  /\ vitals = <<>>
  /\ apiLcpTime = MaxInstant
  /\ Len(resources) = 1

\* The resource collector initialized on a platform of resourceFails, and
\* the long-frame collector on one of loafFails, are left un-initialized
\* with their logs as they were; and an un-initialized collector with an
\* empty log keeps it empty for as long as it stays un-initialized.
StaysUninitialized(resourceFails, loafFails) ==
  /\ \A platform \in resourceFails :
       (~resInitialized /\ ResourceInitializeOn(platform))
         => (~resInitialized' /\ resources' = resources)
  /\ \A platform \in loafFails :
       (loafObserver = "none" /\ LoafInitializeOn(platform))
         => (loafObserver' = "none" /\ frames' = frames)
  /\ (~resInitialized /\ ~resInitialized' /\ resources = <<>>) => resources' = <<>>
  /\ (loafObserver = "none" /\ loafObserver' = "none" /\ frames = <<>>) => frames' = <<>>

\* C20 as stated: initialize() leaves the collector un-initialized, and its
\* empty log stays empty until an initialize() that succeeds, when
\* PerformanceObserver is absent, or neither long-animation-frame nor
\* longtask is supported, or a creation of an observer that initialize()
\* attempts throws.
C20_UnavailableSource ==
  [][StaysUninitialized(
       {p \in ResourcePlatforms : p # "available"},
       {p \in LoafPlatforms :
          \/ ~p.observer
          \/ (p.loaf = "unsupported" /\ p.longtask = "unsupported")
          \/ p.loaf = "throws"
          \/ (p.loaf = "unsupported" /\ p.longtask = "throws")})
    ]_vars

\* C20 amended: initialize() leaves the collector un-initialized, and its
\* empty log stays empty until an initialize() that succeeds, when
\* PerformanceObserver is absent, or, for the resource collector, the
\* creation of its observer throws, or, for the long-frame collector,
\* neither entry type can be observed: long-animation-frame is unsupported
\* or observing it throws, and longtask is unsupported or observing it
\* throws.  (When observing long-animation-frame throws and longtask can be
\* observed, the collector is initialized on the longtask fallback.)
C20_NoUsableSource ==
  [][StaysUninitialized(
       {p \in ResourcePlatforms : p # "available"},
       {p \in LoafPlatforms :
          ~p.observer \/ (p.loaf # "supported" /\ p.longtask # "supported")})
    ]_vars

\* C20 witness: the long-frame collector runs on the longtask fallback and
\* has logged a frame, while the resource collector, whose initialize()
\* cannot have succeeded, is un-initialized with an empty log.
C20_Witness ==
  /\ loafObserver = "longtask"
  /\ Len(frames) = 1
  /\ ~resInitialized
  /\ resources = <<>>

\* C21: the object getPerformanceSession() returned reads the same at every
\* later time (its logs, the blocking flags of the records in them, its
\* summary), whatever records arrive, whatever correlation passes run and
\* whether or not the monitor is cleared.
C21_SnapshotImmutable ==
  session.taken => session.held = session.asReturned

\* The order in which generateReport pushes its sections.
SectionOrder ==
  <<"header", "summary", "vitals", "navigation", "hydration", "resources",
    "longFrames", "apiCalls", "queryCache", "footer">>

\* The caller's options with the four include flags given as true.
AllIncluded(options) ==
  LET flags == {"includeResources", "includeLongFrames", "includeApiCalls",
                "includeQueryCache"}
  IN  [key \in DOMAIN options \cup flags |-> IF key \in flags THEN TRUE ELSE options[key]]

C23_HitRateIsFraction ==
  LET rate == QueryCacheStats(MaxNow).cacheHitRate
  IN  rate.den > 0 /\ 0 <= rate.num /\ rate.num <= rate.den

\* C28: the execution counters add up to the number of tracked 'updated'
\* events whose records are in the log (E), and the cache hit rate is
\* (E - N) / E for a log of N records, 0 when E = 0.
C28_HitRateFormula ==
  LET tracked == Len(SelectSeq(queryStartUsed, LAMBDA startTime : startTime # Null))
      total == Len(queryMetrics)
      rate == QueryCacheStats(MaxNow).cacheHitRate
  IN  /\ Sum([i \in 1..Len(queryExecutions) |-> queryExecutions[i].count]) = tracked
      /\ rate.den > 0
      /\ IF tracked = 0 THEN rate.num = 0
         ELSE rate.num * tracked = (tracked - total) * rate.den

\* One tracked event beside a record taken from the cache at subscription:
\* E = 1, N = 2, and the rate is (1 - 2) / 1.
C28_Witness ==
  /\ Len(queryMetrics) = 2
  /\ queryStartUsed[1] = Null
  /\ queryStartUsed[2] # Null
  /\ QueryCacheStats(MaxNow).cacheHitRate = [num |-> -1, den |-> 1]

\* C24: whatever the order of initialize(), the arrival of the LCP / INP
\* metric and initializeQueryClient(), a record that handleQueryEvent
\* creates once the session has seen a paint or interaction instant is
\* created with the flag true when its interval strictly contains the
\* latest paint instant, or an interaction instant.
C24_QueryFlaggedAtCreation ==
  [][(/\ Len(queryMetrics') = Len(queryMetrics) + 1
      /\ queryStartUsed'[Len(queryStartUsed')] # Null)
     => LET metric == queryMetrics'[Len(queryMetrics')]
            startTime == queryStartUsed'[Len(queryStartUsed')]
            lcp == LatestMetric("LCP")
        IN  /\ (/\ lcp # <<>>
                /\ StrictlyInside(lcp[1].value, startTime, OrZero(metric.fetchDuration)))
               => metric.blockedLCP
            /\ (\E i \in 1..Len(vitals) :
                  /\ vitals[i].name = "INP"
                  /\ StrictlyInside(vitals[i].value, startTime,
                                    OrZero(metric.fetchDuration)))
               => metric.blockedINP]_vars

\* C25: in every state each API-call record whose interval strictly
\* contains the stored paint instant is flagged blockedLCP; and a flag is
\* only ever found newly true, on a new record or on one already in the
\* log, in a step after which the record's interval strictly contains the
\* stored paint instant (the instant it was created under, or the one the
\* setLCPTime call of that step stored).
C25_FlagsFollowStoredInstant ==
  [][/\ \A i \in 1..Len(apiCalls) :
          (/\ apiLcpTime # Null
           /\ StrictlyInside(apiLcpTime, apiCalls[i].startTime, apiCalls[i].duration))
          => apiCalls[i].blockedLCP
     /\ \A i \in 1..Len(apiCalls') :
          (/\ apiCalls'[i].blockedLCP
           /\ (i > Len(apiCalls) \/ ~apiCalls[i].blockedLCP))
          => /\ apiLcpTime' # Null
             /\ StrictlyInside(apiLcpTime', apiCalls'[i].startTime, apiCalls'[i].duration)
    ]_vars

\* The paint instant was 250 and is now 1: the 100/300 call keeps the flag it
\* got under 250, and a call from 0 to 2 is flagged under 1.
C25_Witness ==
  /\ apiLcpTime = 1
  /\ \E i, j \in 1..Len(apiCalls) :
       /\ apiCalls[i].startTime = 100 /\ apiCalls[i].duration = 300
       /\ apiCalls[i].blockedLCP
       /\ apiCalls[j].startTime = 0 /\ apiCalls[j].duration = 2
       /\ apiCalls[j].blockedLCP

\* C26: after clear() on one collector that collector's log is empty and
\* the logs of the other four collectors are as they were before the call.
C26_ClearLeavesOtherLogs ==
  cleared.collector # "none" =>
    /\ Logs[cleared.collector] = <<>>
    /\ \A other \in Collectors \ {cleared.collector} : Logs[other] = cleared.before[other]

\* The API monitor cleared while each of the five logs held a record.
C26_Witness ==
  /\ cleared.collector = "apiCalls"
  /\ \A c \in Collectors : cleared.before[c] # <<>>
  /\ apiCalls = <<>>
  /\ \A other \in Collectors \ {"apiCalls"} : Logs[other] # <<>>

\* C27: an aggregation call (getPerformanceSession, getQueryCacheStats, a
\* filter, top-k or average getter) leaves every log with its records and
\* their flags, the correlation instants and the execution counters as they
\* were, and returns what the same call returned earlier if no event or
\* clear() has come in between.
C27_AggregationIsPureRead ==
  [][Len(reads') > Len(reads)
     => /\ UNCHANGED <<vitals, resources, frames, apiCalls, queryMetrics, apiLcpTime,
                       apiInpEvents, queryLcpTime, queryInpEvents, queryExecutions>>
        /\ \A i \in 1..Len(reads) :
             (/\ reads[i].op = reads'[Len(reads')].op
              /\ reads[i].arg = reads'[Len(reads')].arg)
             => reads[i].result = reads'[Len(reads')].result]_vars

\* getPerformanceSession() called twice running on a session that holds two
\* API calls, one of them flagged, a blocking resource after a non-blocking
\* one, and a query.
C27_Witness ==
  /\ Len(reads) = 2
  /\ reads[1].op = "getPerformanceSession"
  /\ reads[2].op = "getPerformanceSession"
  /\ reads[2].result.apiCallCount = 2
  /\ \E i \in 1..Len(apiCalls) : apiCalls[i].blockedLCP
  /\ Len(resources) = 2
  /\ resources[1].renderBlockingStatus = "non-blocking"
  /\ resources[2].renderBlockingStatus = "blocking"
  /\ Len(queryMetrics) > 0

\* C29: the hydration record that markHydrationEnd() creates has duration =
\* end instant - start instant; with no LCP metric recorded it has neither
\* lcpBeforeHydration nor lcpAfterHydration; otherwise it has exactly one of
\* them, holding the value of the latest LCP record: lcpBeforeHydration if
\* that record arrived strictly before the end instant, lcpAfterHydration if
\* it arrived at or after it.
C29_PaintBeforeOrAfterHydration ==
  [][( /\ SessionKey \in DOMAIN instances
       /\ instances'[SessionKey].hydrationMetric # instances[SessionKey].hydrationMetric
       /\ instances'[SessionKey].hydrationMetric # <<>> )
     => LET h == instances'[SessionKey].hydrationMetric[1]
            lcp == LatestMetric("LCP")
        IN  /\ h.duration = h.endTime - h.startTime
            /\ IF lcp = <<>>
                 THEN h.lcpBeforeHydration = Null /\ h.lcpAfterHydration = Null
                 ELSE IF PerfInstant(lcp[1].timestamp) < h.endTime
                   THEN h.lcpBeforeHydration = lcp[1].value /\ h.lcpAfterHydration = Null
                   ELSE h.lcpBeforeHydration = Null /\ h.lcpAfterHydration = lcp[1].value
    ]_vars

\* What the log and the caller hold of the call in flight: nothing before
\* the call has its record, then one record, with the response's status (and
\* size 0 for an unreadable body) or with status 0 and size 0 for a rejected
\* call, and the caller holds what the original fetch gave.
FetchRecordedOnce ==
  /\ Len(fetchCall.recorded) <= 1
  /\ fetchCall.stage = "done" =>
       /\ Len(fetchCall.recorded) = 1
       /\ fetchCall.original = "fulfilled" =>
            /\ fetchCall.recorded[1].status = fetchCall.status
            /\ fetchCall.body # "ends" => fetchCall.recorded[1].size = 0
            /\ fetchCall.caller = "response"
       /\ fetchCall.original = "rejected" =>
            /\ fetchCall.recorded[1] = [status |-> 0, size |-> 0]
            /\ fetchCall.caller = "error"
  /\ fetchCall.caller = "response" => fetchCall.original = "fulfilled"
  /\ fetchCall.caller = "error" => fetchCall.original = "rejected"

\* C30: every call of the wrapped fetch gets exactly one record, appended
\* when the call settles (the response's status, size 0 for an unreadable
\* body; status 0 and size 0 for a rejection), and the caller receives the
\* original response or the original error.
C30_OneRecordPerFetch ==
  /\ []FetchRecordedOnce
  /\ (fetchCall.original = "fulfilled")
       ~> (Len(fetchCall.recorded) = 1 /\ fetchCall.caller = "response")

\* C31: a frame ingested by the longtask fallback is recorded with
\* blockingDuration = max(0, duration - 50) and one synthetic script; a frame
\* ingested as a long-animation-frame is recorded with the blockingDuration
\* the platform reports (0 when it reports none) and one script per
\* attributed script (none when the platform supplies no list).
C31_TwoIngestionPaths ==
  [][\A entry \in FrameEntries :
       HandleFrameEntry(entry, MaxFrameLog) =>
         LET frame == frames'[Len(frames')]
         IN  /\ Len(frames') = Len(frames) + 1
             /\ frame.duration = entry.duration
             /\ IF loafObserver = "longtask"
                  THEN /\ frame.blockingDuration
                            = (IF entry.duration > 50 THEN entry.duration - 50 ELSE 0)
                       /\ frame.scripts = 1
                  ELSE /\ frame.blockingDuration
                            = (IF entry.blockingDuration = Null THEN 0
                               ELSE entry.blockingDuration)
                       /\ frame.scripts
                            = (IF entry.scripts = Null THEN 0 ELSE entry.scripts)
    ]_vars

\* A 40 ms long-animation-frame for which the platform gives no
\* blockingDuration and no script list, then, the observer having been
\* replaced by the fallback, a 120 ms long task.
C31_Witness ==
  /\ loafObserver = "longtask"
  /\ Len(frames) = 2
  /\ frames[1] = [duration |-> 40, blockingDuration |-> 0, scripts |-> 0]
  /\ frames[2] = [duration |-> 120, blockingDuration |-> 70, scripts |-> 1]

\* C32: getQueryCacheStats() counts over the log as it is: totalQueries is
\* its length, activeQueries the records with fetchStatus 'fetching',
\* erroredQueries those with status 'error', staleQueries those with
\* dataUpdatedAt > 0 and now - dataUpdatedAt > staleTime, and
\* averageFetchDuration the mean of fetchDuration over the records that have
\* one, 0 when none has.
C32_StatsCountTheLog ==
  \A now \in 1..MaxNow :
    LET stats == QueryCacheStats(now)
        at == 1..Len(queryMetrics)
        timed == {i \in at : queryMetrics[i].fetchDuration # Null}
        total == Sum([i \in at |-> IF i \in timed THEN queryMetrics[i].fetchDuration ELSE 0])
    IN  /\ stats.totalQueries = Len(queryMetrics)
        /\ stats.activeQueries
             = Cardinality({i \in at : queryMetrics[i].fetchStatus = "fetching"})
        /\ stats.erroredQueries
             = Cardinality({i \in at : queryMetrics[i].status = "error"})
        /\ stats.staleQueries
             = Cardinality({i \in at : /\ queryMetrics[i].dataUpdatedAt > 0
                                       /\ now - queryMetrics[i].dataUpdatedAt
                                            > queryMetrics[i].staleTime})
        /\ IF timed = {}
             THEN stats.averageFetchDuration = Zero
             ELSE /\ stats.averageFetchDuration.den > 0
                  /\ stats.averageFetchDuration.num * Cardinality(timed)
                       = total * stats.averageFetchDuration.den

\* A log of a cached query without fetchDuration and an errored, fetching
\* query fetched in 2 ms: one active, one errored, mean 2; the second record
\* is stale at instant 3 and not yet at instant 2.
C32_Witness ==
  /\ Len(queryMetrics) = 2
  /\ queryMetrics[1].fetchDuration = Null
  /\ queryMetrics[2].fetchDuration = 2
  /\ queryMetrics[2].staleTime = 1
  /\ queryMetrics[1].dataUpdatedAt = 0
  /\ QueryCacheStats(MaxNow).activeQueries = 1
  /\ QueryCacheStats(MaxNow).erroredQueries = 1
  /\ QueryCacheStats(MaxNow).averageFetchDuration = [num |-> 2, den |-> 1]
  /\ QueryCacheStats(MaxNow).staleQueries = 1
  /\ QueryCacheStats(2).staleQueries = 0

\* C33: getLatestMetric(name) is the record of that name at the highest
\* position of the log, whatever records of other names stand before or
\* after it, and null when the log has no record of that name (as after
\* clear()).
C33_LatestMetric ==
  \A name \in MetricNames :
    LET at == {i \in 1..Len(vitals) : vitals[i].name = name}
    IN  IF at = {}
          THEN LatestMetric(name) = <<>>
          ELSE \E i \in at : /\ \A j \in at : j <= i
                             /\ LatestMetric(name) = <<vitals[i]>>

\* Two LCP revisions (1, then 2) followed by a CLS record: the latest LCP is
\* the second revision, the latest CLS the third record, and INP has none.
C33_Witness ==
  /\ Len(vitals) = 3
  /\ vitals[1].name = "LCP" /\ vitals[1].value = 1
  /\ vitals[2].name = "LCP" /\ vitals[2].value = 2
  /\ vitals[3].name = "CLS"
  /\ LatestMetric("LCP") = <<vitals[2]>>
  /\ LatestMetric("CLS") = <<vitals[3]>>
  /\ LatestMetric("INP") = <<>>

\* The records of a log that was cleared, with no instant observed since,
\* carry the flags that the instants stored before the clear() give them.
FlaggedAgainstKeptInstants ==
  /\ cleared.collector = "apiCalls" =>
       \A i \in 1..Len(apiCalls) :
         LET from == apiCalls[i].startTime
             to == apiCalls[i].startTime + apiCalls[i].duration
         IN  /\ apiCalls[i].blockedLCP
                  <=> (apiLcpTime # Null /\ from < apiLcpTime /\ apiLcpTime < to)
             /\ apiCalls[i].blockedINP <=> (\E t \in apiInpEvents : from < t /\ t < to)
  /\ cleared.collector = "queryMetrics" =>
       \A i \in 1..Len(queryMetrics) :
         LET from == queryStartUsed[i]
             to == queryStartUsed[i] + OrZero(queryMetrics[i].fetchDuration)
         IN  /\ queryMetrics[i].blockedLCP
                  <=> (queryLcpTime # Null /\ from < queryLcpTime /\ queryLcpTime < to)
             /\ queryMetrics[i].blockedINP <=> (\E t \in queryInpEvents : from < t /\ t < to)

\* C34: clear() on the API monitor and on the query monitor empties the log
\* (and, on the query monitor, the execution counters) and leaves the stored
\* paint instant, the interaction instants, the registered observers and the
\* initialized flag as they were; a record that arrives after the clear() is
\* evaluated against the instants observed before it.
C34_ClearKeepsInstants ==
  /\ [][/\ (cleared' # cleared /\ cleared'.collector = "apiCalls") =>
             /\ apiCalls' = <<>>
             /\ UNCHANGED <<apiLcpTime, apiInpEvents, apiCallbacks, apiInitialized>>
        /\ (cleared' # cleared /\ cleared'.collector = "queryMetrics") =>
             /\ queryMetrics' = <<>>
             /\ queryExecutions' = <<>>
             /\ UNCHANGED <<queryLcpTime, queryInpEvents, queryCallbacks, queryInitialized>>
       ]_vars
  /\ []FlaggedAgainstKeptInstants

\* The API log held a record when it was cleared, no instant has been
\* observed since, and the record that arrived after the clear() is flagged
\* for the paint and the interaction observed before it; the observer is
\* still registered.
C34_Witness ==
  /\ cleared.collector = "apiCalls"
  /\ Len(cleared.before.apiCalls) > 0
  /\ Len(apiCalls) = 1
  /\ apiCalls[1].blockedLCP
  /\ apiCalls[1].blockedINP
  /\ apiInitialized
  /\ Len(apiCallbacks) = 1

\* C35: in every state of the query monitor the execution counters add up
\* to the number of records that tracked 'updated' events appended since the
\* last clear(), the counter map has exactly the keys of those records (each
\* once, counting the records of its key), and the records taken from the
\* cache at initialize() are in the log and in no counter.
C35_CountersMatchTrackedRecords ==
  LET trackedAt == {i \in 1..Len(queryMetrics) : queryStartUsed[i] # Null}
      snapshotAt == {i \in 1..Len(queryMetrics) : queryStartUsed[i] = Null}
      counted == 1..Len(queryExecutions)
  IN  /\ Len(queryStartUsed) = Len(queryMetrics)
      /\ Sum([c \in counted |-> queryExecutions[c].count]) = Cardinality(trackedAt)
      /\ {queryExecutions[c].queryKey : c \in counted}
           = {queryMetrics[i].queryKey : i \in trackedAt}
      /\ \A c, d \in counted :
           queryExecutions[c].queryKey = queryExecutions[d].queryKey => c = d
      /\ \A c \in counted :
           queryExecutions[c].count
             = Cardinality({i \in trackedAt :
                              queryMetrics[i].queryKey = queryExecutions[c].queryKey})
      /\ QueryCacheStats(MaxNow).totalQueries
           = Cardinality(trackedAt) + Cardinality(snapshotAt)

\* A query "b" found in the cache at initialize(), then an 'updated' event of
\* query "a": two records, one counter, for "a", at 1.
C35_Witness ==
  /\ Len(queryMetrics) = 2
  /\ queryMetrics[1].queryKey = "b" /\ queryStartUsed[1] = Null
  /\ queryMetrics[2].queryKey = "a" /\ queryStartUsed[2] # Null
  /\ Len(queryExecutions) = 1
  /\ queryExecutions[1].queryKey = "a"
  /\ queryExecutions[1].count = 1

\* Since the last clear(), with no request started after it, the log holds
\* one record for each request that was in flight at the clear() and has
\* settled since.
ClearedRequestsRecorded ==
  cleared.collector = "apiCalls" =>
    LET was == cleared.pendingRequests
        settled == {v \in {"fetch", "xhr"} :
                      /\ was[v] # Null
                      /\ IF v = "fetch" THEN ~FetchInFlight ELSE ~XhrInFlight}
    IN  /\ Len(apiCalls) = Cardinality(settled)
        /\ \A v \in settled : \E i \in 1..Len(apiCalls) : apiCalls[i].startTime = was[v]

\* C36: a request started before clear() and settling after it is recorded:
\* its record is appended to the emptied log when it settles, so clear()
\* cancels no tracking, and the log is in the order in which requests
\* settled, not in the order in which they started.
C36_InFlightSurvivesClear ==
  /\ []ClearedRequestsRecorded
  /\ [][/\ (FetchInFlight /\ fetchCall'.stage = "done") =>
             /\ Len(apiCalls') = Len(apiCalls) + 1
             /\ SubSeq(apiCalls', 1, Len(apiCalls)) = apiCalls
             /\ apiCalls'[Len(apiCalls')].startTime = fetchCall.startTime
        /\ (XhrInFlight /\ xhrCall'.stage = "done") =>
             /\ Len(apiCalls') = Len(apiCalls) + 1
             /\ SubSeq(apiCalls', 1, Len(apiCalls)) = apiCalls
             /\ apiCalls'[Len(apiCalls')].startTime = xhrCall.startTime
       ]_vars

\* A fetch sent at 1 and an XMLHttpRequest sent at 2 were in flight when the
\* log was cleared; the XMLHttpRequest ended first: the emptied log holds its
\* record, then the record of the fetch.
C36_Witness ==
  /\ cleared.collector = "apiCalls"
  /\ cleared.pendingRequests = [fetch |-> 1, xhr |-> 2]
  /\ fetchCall.stage = "done" /\ fetchCall.pendingRequests = 0
  /\ xhrCall.stage = "done"
  /\ Len(apiCalls) = 2
  /\ apiCalls[1].startTime = 2
  /\ apiCalls[2].startTime = 1

\* C37: with window.fetch patched by the API monitor, a sendToAnalytics()
\* call goes through the wrapper; the call itself changes no log; when the
\* send settles, one record for its request, no more, has been appended to
\* the API log (status 0 when the request failed, the response's status
\* otherwise), and no other log has changed.
C37_SendIsRecordedOnce ==
  [][/\ (analytics.status # "pending" /\ analytics'.status = "pending") =>
          /\ UNCHANGED <<apiCalls, vitals, resources, frames, queryMetrics>>
          /\ apiInitialized =>
               /\ analytics'.intercepted
               /\ fetchCall'.stage = "pending"
               /\ fetchCall'.recorded = <<>>
     /\ (analytics.status = "pending" /\ analytics.intercepted
           /\ analytics'.status = "pending") =>
          /\ fetchCall'.recorded = <<>>
          /\ Len(apiCalls') <= Len(apiCalls)
     /\ (analytics.status = "pending" /\ analytics.intercepted
           /\ analytics'.status # "pending") =>
          /\ Len(fetchCall'.recorded) = 1
          /\ fetchCall'.recorded[1].status
               = (IF analytics'.fetch = "rejected" THEN 0 ELSE fetchCall.status)
          /\ Len(apiCalls') = Len(apiCalls) + 1
          /\ SubSeq(apiCalls', 1, Len(apiCalls)) = apiCalls
          /\ apiCalls'[Len(apiCalls')].startTime = analytics.startTime
          /\ UNCHANGED <<vitals, resources, frames, queryMetrics>>
    ]_vars

\* A paint metric and a long frame were logged, the session was sent through
\* the patched fetch, and the network failed: the API log holds the record
\* of the POST, with status 0, and the other logs are as they were.
C37_Witness ==
  /\ analytics.status = "resolved"
  /\ analytics.fetch = "rejected"
  /\ analytics.intercepted
  /\ fetchCall.recorded = <<[status |-> 0, size |-> 0]>>
  /\ Len(apiCalls) = 1
  /\ apiCalls[1].startTime = analytics.startTime
  /\ Len(vitals) = 1
  /\ Len(frames) = 1

\* C38: setLCPTime(t) and recordINPEvent(t), called on a monitor that was
\* last given the same t, change nothing; a metric delivered by several
\* correlation observers leaves the monitor as one delivery does; and the
\* set of interaction instants holds each instant once and loses none.
C38_InstantsIdempotent ==
  [][/\ \A t \in 1..MaxInstant :
          /\ (apiLcpTime = t /\ ApiSetLCPTime(t)) => UNCHANGED apiVars
          /\ (t \in apiInpEvents /\ ApiRecordINPEvent(t)) => UNCHANGED apiVars
          /\ (queryLcpTime = t /\ QuerySetLCPTime(t)) => UNCHANGED queryVars
          /\ (t \in queryInpEvents /\ QueryRecordINPEvent(t)) => UNCHANGED queryVars
     /\ ( /\ Len(vitals') = Len(vitals) + 1
          /\ Len(vitalsCallbacks) > 0 ) =>
          LET metric == vitals'[Len(vitals')]
              toQuery == instances[SessionKey].queryClientInitialized
          IN  /\ metric.name = "LCP" =>
                   /\ apiLcpTime' = metric.value
                   /\ apiCalls' = ApiCorrelateWithLCP(apiCalls, metric.value)
                   /\ apiInpEvents' = apiInpEvents
                   /\ toQuery =>
                        /\ queryLcpTime' = metric.value
                        /\ queryMetrics' = QueryCorrelateWithLCP(queryMetrics, metric.value)
              /\ metric.name = "INP" =>
                   /\ apiInpEvents' = apiInpEvents \cup {metric.value}
                   /\ apiCalls' = ApiCorrelateWithINP(apiCalls, apiInpEvents')
                   /\ apiLcpTime' = apiLcpTime
                   /\ toQuery =>
                        /\ queryInpEvents' = queryInpEvents \cup {metric.value}
                        /\ queryMetrics' = QueryCorrelateWithINP(queryMetrics, queryInpEvents')
     /\ apiInpEvents \subseteq apiInpEvents'
     /\ queryInpEvents \subseteq queryInpEvents'
    ]_vars

\* Two correlation observers are registered; an interaction at 2 has been
\* delivered (twice) after an interaction at 1, and a paint at 2: the set
\* holds the two instants and the request logged before is flagged.
C38_Witness ==
  /\ Len(vitalsCallbacks) = 2
  /\ Len(vitals) = 2
  /\ vitals[1].name = "LCP" /\ vitals[1].value = 2
  /\ vitals[2].name = "INP" /\ vitals[2].value = 2
  /\ apiInpEvents = {1, 2}
  /\ apiLcpTime = 2
  /\ Len(apiCalls) = 1
  /\ apiCalls[1].blockedLCP /\ apiCalls[1].blockedINP

\* C3: after setLCPTime(t), every API-call record already in the log whose
\* interval strictly contains t is flagged blockedLCP, and every record that
\* was unflagged before and whose interval does not strictly contain t is
\* still unflagged.  A record is unflagged while no paint instant is stored
\* (the 100/300 call before setLCPTime(250)), and the 500/50 call is never
\* flagged for paint instant 250.
C3_SetLCPTimePass ==
  [][/\ \A t \in Instants :
          ApiSetLCPTime(t) =>
            /\ Len(apiCalls') = Len(apiCalls)
            /\ \A i \in 1..Len(apiCalls) :
                 LET c == apiCalls[i]
                     inside == StrictlyInside(t, c.startTime, c.duration)
                 IN  /\ inside => apiCalls'[i].blockedLCP
                     /\ (~c.blockedLCP /\ ~inside) => ~apiCalls'[i].blockedLCP
     /\ \A i \in 1..Len(apiCalls) :
          /\ apiLcpTime = Null => ~apiCalls[i].blockedLCP
          /\ (apiCalls[i].startTime = 500 /\ apiCalls[i].duration = 50)
               => ~apiCalls[i].blockedLCP
    ]_vars

\* C3 witness: the 100/300 call was handed to an observer unflagged, the
\* paint instant 250 was set afterwards, and the record is now flagged.
C3_Witness ==
  /\ Len(apiCalls) = 1
  /\ apiCalls[1].startTime = 100 /\ apiCalls[1].duration = 300
  /\ Len(apiNotified) = 1 /\ ~apiNotified[1].metric.blockedLCP
  /\ apiLcpTime = 250
  /\ apiCalls[1].blockedLCP

\* C4: in every reachable state each API-call record is flagged blockedINP
\* exactly when some stored interaction instant lies strictly inside its
\* interval.
C4_BlockedINPIffSomeInstant ==
  \A i \in 1..Len(apiCalls) :
    apiCalls[i].blockedINP <=>
      \E t \in apiInpEvents :
        StrictlyInside(t, apiCalls[i].startTime, apiCalls[i].duration)

\* C4 witness: two interaction instants are stored and a record is flagged
\* although one of them lies outside its interval.
C4_Witness ==
  \E i \in 1..Len(apiCalls) :
    /\ apiCalls[i].blockedINP
    /\ Cardinality(apiInpEvents) >= 2
    /\ \E t \in apiInpEvents :
         ~StrictlyInside(t, apiCalls[i].startTime, apiCalls[i].duration)

\* C5: a query-cache record and an API-call record with the same start
\* instant and the same duration, created at the same point of the same
\* sequence of setLCPTime / recordINPEvent calls, carry equal blockedLCP and
\* equal blockedINP in every state.
C5_SameFlagsInLockStep ==
  /\ Len(apiCalls) = Len(queryMetrics)
  /\ \A i \in 1..Len(apiCalls) :
       (/\ apiCalls[i].startTime = queryStartUsed[i]
        /\ apiCalls[i].duration = queryMetrics[i].fetchDuration)
       => /\ apiCalls[i].blockedLCP = queryMetrics[i].blockedLCP
          /\ apiCalls[i].blockedINP = queryMetrics[i].blockedINP

\* C6: the record appended by recordAPICall carries, when the observers are
\* handed it, blockedLCP = the overlap test against the paint instant stored
\* at that moment (false when none) and blockedINP = the overlap test
\* against all interaction instants stored at that moment.
C6_FlagsAtCreation ==
  [][\A sh \in ApiShapes :
       RecordAPICall(sh[1], sh[2]) =>
         LET m == apiCalls'[Len(apiCalls')]
         IN  /\ m.startTime = sh[1] /\ m.duration = sh[2]
             /\ m.blockedLCP =
                  (apiLcpTime # Null /\ StrictlyInside(apiLcpTime, sh[1], sh[2]))
             /\ m.blockedINP =
                  (\E t \in apiInpEvents : StrictlyInside(t, sh[1], sh[2]))
             /\ Len(apiNotified') = Len(apiCallbacks)
             /\ \A j \in 1..Len(apiNotified') : apiNotified'[j].metric = m
    ]_vars

\* C6 witness: an observer was handed a record already flagged for both the
\* paint instant and an interaction instant.
C6_Witness ==
  /\ Len(apiNotified) >= 1
  /\ apiNotified[1].metric.blockedLCP
  /\ apiNotified[1].metric.blockedINP

====
